---------------------------- MODULE Spec2Model ----------------------------
(***************************************************************************)
(* Model of the GitHub integration MCP server                              *)
(* (src/claude-framework/mcp-servers/github/main.py) and of the base       *)
(* server it extends (src/claude-framework/mcp-servers/base/mcp_server.py).*)
(*                                                                         *)
(* Strings are sequences of code points (0..255), so that the ASCII-only   *)
(* restriction of hmac.compare_digest on str arguments and single-bit      *)
(* mutations of a header value can be expressed.  An optional value        *)
(* (Python None) is the empty sequence, a present value x is <<x>>.        *)
(***************************************************************************)
EXTENDS Integers, Sequences, FiniteSets, TLC

VARIABLES
    webhook_secret,   \* self.webhook_secret: None or Some(string)
    redis_client,     \* self.redis_client is bound (TRUE) or None (FALSE)
    webhook_handlers, \* self.webhook_handlers: event type -> handler name
    pr_configs,       \* self.pr_configs: repo id -> PRAutomationConfig
    started,          \* startup() has been awaited
    init_error,       \* exception raised by the last initialize(), or "none"
    cache,            \* the key-value cache behind redis_client
    tasks,            \* background tasks scheduled by github_webhook, in order
    nreq,             \* number of POST /webhooks/github requests served
    last,             \* the last request served and its response
    hcall,            \* the last direct call of an event handler and its outcome
    vcall,            \* the last call of _verify_webhook_signature and its outcome
    tcall,            \* the last tool method awaited on the server and its result
    otasks,           \* the orchestrator's self.tasks: task id -> task record
    uuids,            \* the number of uuid4() values drawn so far
    ccalls,           \* the configure_pr_automation calls awaited so far, in order
    files,            \* the context server's directory: file name -> content
    hooks,            \* the hooks of the repository at GitHub, in creation order
    scalls            \* the setup_webhooks calls awaited so far, in order

vars == <<webhook_secret, redis_client, webhook_handlers, pr_configs, started,
          init_error, cache, tasks, nreq, last, hcall, vcall, tcall, otasks, uuids,
          ccalls, files, hooks, scalls>>

-----------------------------------------------------------------------------
(* Bounds of the model. *)

\* width of the reduced digest, in hex characters (SHA-256 has 64)
DigestLen == 2
\* block size of the reduced hash, in bytes (SHA-256 has 64)
BlockSize == 2
\* deliveries accepted (background tasks scheduled) in one behaviour
MaxTasks == 2
\* requests served in one behaviour
MaxRequests == 2

-----------------------------------------------------------------------------
(* Optional values and strings. *)

None == <<>>
Some(x) == <<x>>
IsNone(o) == o = <<>>
Get(o) == o[1]

RECURSIVE Pow(_, _)
Pow(b, n) == IF n = 0 THEN 1 ELSE b * Pow(b, n - 1)

Bit(c, k) == (c \div Pow(2, k)) % 2

\* c with bit k flipped
FlipBit(c, k) == IF Bit(c, k) = 1 THEN c - Pow(2, k) ELSE c + Pow(2, k)

RECURSIVE XorBits(_, _, _)
XorBits(a, b, k) ==
    IF k = 8 THEN 0
    ELSE (IF Bit(a, k) = Bit(b, k) THEN 0 ELSE Pow(2, k)) + XorBits(a, b, k + 1)

Xor(a, b) == XorBits(a, b, 0)

IsAscii(s) == \A i \in 1..Len(s) : s[i] < 128

\* str.encode(): UTF-8 of a string of code points below 256
RECURSIVE Utf8Encode(_)
Utf8Encode(s) ==
    IF s = <<>> THEN <<>>
    ELSE (IF s[1] < 128 THEN <<s[1]>>
          ELSE <<192 + (s[1] \div 64), 128 + (s[1] % 64)>>) \o Utf8Encode(Tail(s))

-----------------------------------------------------------------------------
(* hmac.new(key, body, hashlib.sha256).hexdigest(), with the hash reduced  *)
(* to DigestLen hex characters and BlockSize-byte blocks.  The HMAC        *)
(* construction itself (key hashing and padding, inner and outer pass,     *)
(* lower-case hex output) is the library's.                                *)

HashMod == Pow(16, DigestLen)

RECURSIVE HashFrom(_, _)
HashFrom(h, bytes) ==
    IF bytes = <<>> THEN h
    ELSE HashFrom((h * 33 + bytes[1] + 1) % HashMod, Tail(bytes))

Hash(bytes) == HashFrom(5381 % HashMod, bytes)

RECURSIVE DigestBytesOf(_, _)
DigestBytesOf(h, n) ==
    IF n = 0 THEN <<>> ELSE DigestBytesOf(h \div 256, n - 1) \o <<h % 256>>

\* digest(): the hash value as bytes, big-endian
DigestBytes(h) == DigestBytesOf(h, (DigestLen + 1) \div 2)

HexChar(n) == IF n < 10 THEN 48 + n ELSE 87 + n

RECURSIVE HexOf(_, _)
HexOf(h, n) ==
    IF n = 0 THEN <<>> ELSE HexOf(h \div 16, n - 1) \o <<HexChar(h % 16)>>

\* hexdigest(): DigestLen lower-case hex characters
HexDigest(h) == HexOf(h, DigestLen)

RECURSIVE PadKey(_)
PadKey(k) == IF Len(k) >= BlockSize THEN k ELSE PadKey(k \o <<0>>)

BlockKey(key) == PadKey(IF Len(key) > BlockSize THEN DigestBytes(Hash(key)) ELSE key)

XorAll(k, pad) == [i \in 1..Len(k) |-> Xor(k[i], pad)]

Hmac(key, body) ==
    Hash(XorAll(BlockKey(key), 92) \o DigestBytes(Hash(XorAll(BlockKey(key), 54) \o body)))

\* "sha256="
SigPrefix == <<115, 104, 97, 50, 53, 54, 61>>

\* "invalid"
InvalidWord == <<105, 110, 118, 97, 108, 105, 100>>

\* hmac.compare_digest(a, b) on str arguments: TypeError unless both are ASCII
CompareDigest(a, b) ==
    IF IsAscii(a) /\ IsAscii(b)
    THEN [raised |-> "none", value |-> (a = b)]
    ELSE [raised |-> "TypeError", value |-> FALSE]

\* GITHUB_WEBHOOK_SECRET: unset, "", "k", "e-acute", "key"
Secrets == {None, Some(<<>>), Some(<<107>>), Some(<<233>>), Some(<<107, 101, 121>>)}

\* request bodies: "", "{}", "7", "["
Bodies == {<<>>, <<123, 125>>, <<55>>, <<91>>}

\* f"sha256={expected}" of _verify_webhook_signature, tabulated over the secrets
\* and the bodies of the model
SignatureTable ==
    [secret \in {Get(o) : o \in Secrets \ {None}}, body \in Bodies |->
        SigPrefix \o HexDigest(Hmac(Utf8Encode(secret), body))]

ExpectedSignature(secret, body) == SignatureTable[secret, body]

\* Python truthiness of an Optional[str]
Truthy(o) == ~IsNone(o) /\ Get(o) # <<>>

\* _verify_webhook_signature comparing the bare hex digest, without "sha256="
VerifyWebhookSignature_BareDigest(secret, body, signature) ==
    IF ~Truthy(secret) \/ ~Truthy(signature)
    THEN [raised |-> "none", value |-> FALSE, body_read |-> FALSE]
    ELSE LET r == CompareDigest(HexDigest(Hmac(Utf8Encode(Get(secret)), body)),
                                Get(signature))
         IN  [raised |-> r.raised, value |-> r.value, body_read |-> TRUE]

\* _verify_webhook_signature guarding on the secret alone: a missing header
\* reaches compare_digest, which raises TypeError on None
VerifyWebhookSignature_SecretGuardOnly(secret, body, signature) ==
    IF ~Truthy(secret)
    THEN [raised |-> "none", value |-> FALSE, body_read |-> FALSE]
    ELSE IF IsNone(signature)
    THEN [raised |-> "TypeError", value |-> FALSE, body_read |-> TRUE]
    ELSE LET r == CompareDigest(ExpectedSignature(Get(secret), body), Get(signature))
         IN  [raised |-> r.raised, value |-> r.value, body_read |-> TRUE]

\* _verify_webhook_signature(request, signature) with self.webhook_secret = secret.
\* body_read tells whether request.body() was awaited.
VerifyWebhookSignature(secret, body, signature) ==
    IF ~Truthy(secret) \/ ~Truthy(signature)
    THEN [raised |-> "none", value |-> FALSE, body_read |-> FALSE]
    ELSE LET r == CompareDigest(ExpectedSignature(Get(secret), body), Get(signature))
         IN  [raised |-> r.raised, value |-> r.value, body_read |-> TRUE]

-----------------------------------------------------------------------------
(* The class GitHubIntegrationMCPServer: the methods it defines.  A use of *)
(* self.<name> for a name outside this set raises AttributeError.          *)

DefinedMethods ==
    {"__init__", "_register_resources", "_register_tools", "_register_prompts",
     "_setup_webhook_routes", "_verify_webhook_signature", "initialize",
     "_register_webhook_handlers", "_load_configurations", "_process_webhook",
     "_store_webhook_event", "_notify_studio_backend", "_handle_push_event",
     "_handle_pr_event", "_handle_pr_opened", "_handle_issue_event",
     "_handle_issue_opened", "get_resource_content", "call_tool_impl",
     "get_prompt_impl", "_connect_repository", "_create_issue_from_slack",
     "_create_automated_pr", "_assign_agent_to_issue", "_setup_webhooks",
     "_configure_pr_automation", "_analyze_pr_metrics", "_extract_issue_references",
     "_is_wip_pr", "_extract_agent_assignment", "_get_project_id_for_repo",
     "_get_pr_config", "_enhance_issue_body_with_slack_context",
     "_generate_agent_assignment_comment", "_generate_pr_insights",
     "_get_project_info", "_get_task_info", "_get_agent_info",
     "_enhance_pr_body_with_task", "_add_agent_attribution", "_find_task_for_issue",
     "_get_connected_repositories", "_get_webhook_configurations",
     "_store_repo_config", "_send_slack_confirmation", "_triage_issue",
     "_apply_labels_to_issue", "_create_task_for_issue", "_create_task_for_pr",
     "_generate_pr_description_prompt", "_generate_issue_triage_prompt",
     "_generate_code_review_prompt", "_store_webhook_error", "shutdown"}

HasAttr(name) == name \in DefinedMethods

-----------------------------------------------------------------------------
(* Inputs. *)

\* every string that differs from s in exactly one bit of one character
SingleBitMutations(s) ==
    {[s EXCEPT ![i] = FlipBit(s[i], k)] : i \in 1..Len(s), k \in 0..7}

\* values of the X-Hub-Signature-256 header tried against (secret, body)
Signatures(secret, body) ==
    LET own   == IF IsNone(secret) THEN {} ELSE {ExpectedSignature(Get(secret), body)}
        other == {ExpectedSignature(Get(s), body) : s \in Secrets \ {None}}
        muts  == UNION {SingleBitMutations(g) : g \in own}
        fixed == {<<>>, SigPrefix \o InvalidWord, <<233>>,
                  HexDigest(Hmac(<<107>>, body))}
        long  == {g \o <<48>> : g \in own}
    IN  {None} \cup {Some(g) : g \in own \cup other \cup muts \cup fixed \cup long}

-----------------------------------------------------------------------------
(* State after construction (__init__), for each deployment configuration. *)

NoVerifyCall ==
    [done |-> FALSE, body |-> <<>>, signature |-> None,
     res |-> [raised |-> "none", value |-> FALSE, body_read |-> FALSE]]

NoRequest ==
    [signature |-> None, body |-> <<>>, event_type |-> "", delivery_id |-> "",
     status |-> 0, response |-> [detail |-> ""]]

NoToolCall ==
    [done |-> FALSE, tool |-> "", args |-> [kind |-> "none"],
     result |-> [success |-> FALSE, error |-> ""]]

NoHandlerCall ==
    [done |-> FALSE, payload |-> [kind |-> "none"], config |-> [kind |-> "none"],
     res |-> [raised |-> "none", calls |-> <<>>, remote |-> <<>>, swallowed |-> <<>>]]

-----------------------------------------------------------------------------
(* Specification of _verify_webhook_signature alone: the secret, the body  *)
(* and the signature are drawn at the start, the one step awaits the call. *)

\* the context directory right after mkdir(exist_ok=True) on a fresh deployment
EmptyDirectory == [name \in {} |-> [kind |-> "invalid"]]

ConstructedWith(v, directories) ==
    /\ webhook_secret \in Secrets
    /\ redis_client \in BOOLEAN
    /\ webhook_handlers = <<>>
    /\ pr_configs = <<>>
    /\ started = FALSE
    /\ init_error = "none"
    /\ cache = {}
    /\ tasks = <<>>
    /\ nreq = 0
    /\ last = NoRequest
    /\ hcall = NoHandlerCall
    /\ vcall \in v
    /\ tcall = NoToolCall
    /\ otasks = <<>>
    /\ uuids = 0
    /\ ccalls = <<>>
    /\ files \in directories
    /\ hooks = <<>>
    /\ scalls = <<>>

ConstructedBut(v) == ConstructedWith(v, {EmptyDirectory})

InitVerify ==
    /\ ConstructedBut({NoVerifyCall})
    /\ redis_client = FALSE

VerifyCall(body, signature) ==
    /\ ~vcall.done
    /\ vcall' = [done |-> TRUE, body |-> body, signature |-> signature,
                 res |-> VerifyWebhookSignature(webhook_secret, body, signature)]
    /\ UNCHANGED <<webhook_secret, redis_client, webhook_handlers, pr_configs,
                   started, init_error, cache, tasks, nreq, last, hcall, tcall,
                   otasks, uuids, ccalls, files, hooks, scalls>>

NextVerify ==
    \E body \in Bodies : \E signature \in Signatures(webhook_secret, body) :
        VerifyCall(body, signature)

\* GITHUB_WEBHOOK_SECRET of the served deployments: unset, "", "k"
ServerSecrets == {None, Some(<<>>), Some(<<107>>)}

Constructed ==
    /\ ConstructedBut({NoVerifyCall})
    /\ webhook_secret \in ServerSecrets

SpecVerify == InitVerify /\ [][NextVerify]_vars

\* the call just made was given the correct signature for the configured secret
GivenCorrectSignature ==
    /\ vcall.done
    /\ ~IsNone(webhook_secret)
    /\ vcall.signature = Some(ExpectedSignature(Get(webhook_secret), vcall.body))

ReturnedTrue == vcall.res.raised = "none" /\ vcall.res.value = TRUE
ReturnedFalse == vcall.res.raised = "none" /\ vcall.res.value = FALSE

\* C2 as stated: for every body and every secret, the correct signature
\* 'sha256=' + hexHMAC(secret, body) makes _verify_webhook_signature return true.
C2_AnySecretAccepts == GivenCorrectSignature => ReturnedTrue

\* C2 amended: for every body and every non-empty secret, the correct signature
\* makes _verify_webhook_signature return true.
C2_NonEmptySecretAccepts ==
    (GivenCorrectSignature /\ Get(webhook_secret) # <<>>) => ReturnedTrue

C2_Witness ==
    /\ GivenCorrectSignature
    /\ Get(webhook_secret) = <<107, 101, 121>>
    /\ vcall.body = <<123, 125>>
    /\ ReturnedTrue

\* the call just made was given a single-bit mutation of the correct signature,
\* or the fixed string 'sha256=invalid'
GivenMutatedSignature ==
    /\ vcall.done
    /\ ~IsNone(webhook_secret)
    /\ ~IsNone(vcall.signature)
    /\ \/ Get(vcall.signature) \in
             SingleBitMutations(ExpectedSignature(Get(webhook_secret), vcall.body))
       \/ Get(vcall.signature) = SigPrefix \o InvalidWord

\* C3 as stated: every single-bit mutation of the correct signature, and
\* 'sha256=invalid', makes _verify_webhook_signature return false.
C3_MutationRejected == GivenMutatedSignature => ReturnedFalse

\* the part of C3 the code keeps: a mutated signature is never accepted
C3_MutationNeverAccepted == GivenMutatedSignature => ~ReturnedTrue

\* C4: with the secret absent or empty, or the signature absent or empty,
\* _verify_webhook_signature returns false for every body, without reading it.
C4_AbsentRejectsUnread ==
    (vcall.done /\ (~Truthy(webhook_secret) \/ ~Truthy(vcall.signature)))
        => (ReturnedFalse /\ ~vcall.res.body_read)

C4_Witness ==
    /\ vcall.done
    /\ Truthy(webhook_secret)
    /\ vcall.signature = Some(<<>>)
    /\ vcall.body = <<123, 125>>
    /\ ReturnedFalse

\* C5: _verify_webhook_signature returns a boolean and never raises, whatever
\* the signature header and the body are.
C5_NeverRaises == vcall.done => vcall.res.raised = "none"

-----------------------------------------------------------------------------
(* The pull_request handler (_handle_pr_event, _handle_pr_opened) and the  *)
(* helpers it uses.  A handler run yields the exception that left it (or   *)
(* "none"), the methods of the server it invoked, in order, and the remote *)
(* calls those made.                                                       *)

\* str.lower() on ASCII
Lower(s) == [i \in 1..Len(s) |-> IF s[i] >= 65 /\ s[i] <= 90 THEN s[i] + 32 ELSE s[i]]

\* sub in s
Contains(s, sub) ==
    \E i \in 1..(Len(s) - Len(sub) + 1) : SubSeq(s, i, i + Len(sub) - 1) = sub

\* "wip", "work in progress", "draft", "[wip]", "[draft]"
WipMarkers ==
    {<<119, 105, 112>>,
     <<119, 111, 114, 107, 32, 105, 110, 32, 112, 114, 111, 103, 114, 101, 115, 115>>,
     <<100, 114, 97, 102, 116>>,
     <<91, 119, 105, 112, 93>>,
     <<91, 100, 114, 97, 102, 116, 93>>}

IsWipPr(title) == \E marker \in WipMarkers : Contains(Lower(title), marker)

\* "agent:"
AgentMarker == <<97, 103, 101, 110, 116, 58>>

IsSpace(c) == c \in {9, 10, 11, 12, 13, 32}

IsWordChar(c) ==
    \/ c >= 48 /\ c <= 57
    \/ c >= 65 /\ c <= 90
    \/ c >= 97 /\ c <= 122
    \/ c = 95

\* the first position at or after i of s that holds no whitespace
RECURSIVE SkipSpaces(_, _)
SkipSpaces(s, i) == IF i <= Len(s) /\ IsSpace(s[i]) THEN SkipSpaces(s, i + 1) ELSE i

\* the longest run of word characters of s that starts at i
RECURSIVE WordAt(_, _)
WordAt(s, i) ==
    IF i <= Len(s) /\ IsWordChar(s[i]) THEN <<s[i]>> \o WordAt(s, i + 1) ELSE <<>>

\* the group of r'agent:\s*@?(\w+)' matched at position i of s, or <<>>
AgentMatchAt(s, i) ==
    IF i + 5 > Len(s) \/ SubSeq(s, i, i + 5) # AgentMarker THEN <<>>
    ELSE LET j == SkipSpaces(s, i + 6)
             k == IF j <= Len(s) /\ s[j] = 64 THEN j + 1 ELSE j
         IN  WordAt(s, k)

\* _extract_agent_assignment(body): re.search on body.lower()
ExtractAgentAssignment(body) ==
    LET s    == Lower(body)
        hits == {i \in 1..Len(s) : AgentMatchAt(s, i) # <<>>}
    IN  IF hits = {} THEN None
        ELSE Some(AgentMatchAt(s, CHOOSE i \in hits : \A j \in hits : i <= j))

\* PRAutomationConfig(): the defaults of the model
DefaultPrConfig ==
    [auto_assign |-> TRUE, auto_label |-> TRUE, require_reviews |-> 2,
     protected_branches |-> <<"main", "master", "production">>,
     draft_on_wip |-> TRUE, close_stale_after_days |-> 30]

\* _get_pr_config(repository)
GetPrConfig(configs, repo_id) ==
    IF repo_id \in DOMAIN configs THEN configs[repo_id] ELSE DefaultPrConfig

\* _get_project_id_for_repo resolving every repository to a project
GetProjectIdForRepo_Found(owner, name) == Some("p1")

\* _get_project_id_for_repo(owner, name): "For now, return None"
GetProjectIdForRepo(owner, name) == None

\* return {"success": False, "error": str(e)}
Failure(message) == [success |-> FALSE, error |-> message]

NoEffects == [raised |-> "none", calls |-> <<>>, remote |-> <<>>, swallowed |-> <<>>]

\* the remote calls of a method of the server that exists
RemoteCallsOf(method, repo_id) ==
    IF method = "_create_task_for_pr" /\ ~IsNone(GetProjectIdForRepo(repo_id, repo_id))
    THEN <<"POST /api/tasks">>
    ELSE <<>>

\* await self.<method>(...) for each step whose condition holds, in order; a
\* method the class does not define raises AttributeError and ends the run
RECURSIVE RunSteps(_, _, _)
RunSteps(steps, repo_id, acc) ==
    IF steps = <<>> THEN acc
    ELSE IF ~steps[1].when THEN RunSteps(Tail(steps), repo_id, acc)
    ELSE IF ~HasAttr(steps[1].method) THEN [acc EXCEPT !.raised = "AttributeError"]
    ELSE RunSteps(Tail(steps), repo_id,
                  [acc EXCEPT !.calls = Append(@, steps[1].method),
                              !.remote = @ \o RemoteCallsOf(steps[1].method, repo_id)])

\* the steps of _handle_pr_opened(repository, pr, config), in source order
PrOpenedSteps(pr, config) ==
    <<[when |-> config.draft_on_wip /\ IsWipPr(pr.title),
       method |-> "_convert_pr_to_draft"],
      [when |-> config.auto_assign, method |-> "_auto_assign_reviewers"],
      [when |-> config.auto_label, method |-> "_auto_label_pr"],
      [when |-> TRUE, method |-> "_create_task_for_pr"],
      [when |-> /\ Truthy(pr.body)
                /\ Contains(Lower(Get(pr.body)), AgentMarker)
                /\ ~IsNone(ExtractAgentAssignment(Get(pr.body))),
       method |-> "_assign_agent_to_pr"]>>

HandlePrOpened(pr, config) == RunSteps(PrOpenedSteps(pr, config), pr.repo_id, NoEffects)

\* _handle_pr_event(payload)
HandlePrEvent(payload, configs) ==
    LET config == GetPrConfig(configs, payload.repo_id)
    IN  IF payload.action = "opened" THEN HandlePrOpened(payload, config)
        ELSE IF payload.action = "ready_for_review"
        THEN RunSteps(<<[when |-> TRUE, method |-> "_handle_pr_ready"]>>,
                      payload.repo_id, NoEffects)
        ELSE IF payload.action = "closed" /\ payload.merged
        THEN RunSteps(<<[when |-> TRUE, method |-> "_handle_pr_merged"]>>,
                      payload.repo_id, NoEffects)
        ELSE NoEffects

\* the keyword lists of _triage_issue: bug/error/crash/fail,
\* feature/enhancement/improve, question/help/how
BugWords == {<<98, 117, 103>>, <<101, 114, 114, 111, 114>>, <<99, 114, 97, 115, 104>>, <<102, 97, 105, 108>>}

FeatureWords ==
    {<<102, 101, 97, 116, 117, 114, 101>>,
     <<101, 110, 104, 97, 110, 99, 101, 109, 101, 110, 116>>,
     <<105, 109, 112, 114, 111, 118, 101>>}

QuestionWords ==
    {<<113, 117, 101, 115, 116, 105, 111, 110>>, <<104, 101, 108, 112>>, <<104, 111, 119>>}

\* any(word in title or word in body for word in words)
AnyWordIn(words, title, body) ==
    \E w \in words : Contains(title, w) \/ Contains(body, w)

\* _triage_issue(issue): issue.get("body", "") is None for a JSON null body,
\* and None.lower() raises AttributeError
TriageIssue(issue) ==
    IF IsNone(issue.body)
    THEN [raised |-> "AttributeError", labels |-> <<>>, priority |-> "medium",
          suggested_agent |-> None]
    ELSE LET title == Lower(issue.title)
             body  == Lower(Get(issue.body))
         IN  IF AnyWordIn(BugWords, title, body)
             THEN [raised |-> "none", labels |-> <<"bug">>, priority |-> "high",
                   suggested_agent |-> None]
             ELSE IF AnyWordIn(FeatureWords, title, body)
             THEN [raised |-> "none", labels |-> <<"enhancement">>,
                   priority |-> "medium", suggested_agent |-> None]
             ELSE IF AnyWordIn(QuestionWords, title, body)
             THEN [raised |-> "none", labels |-> <<"question">>, priority |-> "low",
                   suggested_agent |-> None]
             ELSE [raised |-> "none", labels |-> <<>>, priority |-> "medium",
                   suggested_agent |-> None]

\* _apply_labels_to_issue: the GitHub client calls sit in try/except Exception;
\* remote_ok is whether they succeed
ApplyLabelsToIssue(acc, remote_ok) ==
    IF remote_ok
    THEN [acc EXCEPT !.calls = Append(@, "_apply_labels_to_issue"),
                     !.remote = Append(@, "add_to_labels")]
    ELSE [acc EXCEPT !.calls = Append(@, "_apply_labels_to_issue"),
                     !.swallowed = Append(@, "_apply_labels_to_issue")]

\* _create_task_for_issue: try/except Exception around the project lookup and
\* the POST, which is made only for a repository that resolves to a project
CreateTaskForIssue(acc, repo_id) ==
    [acc EXCEPT !.calls = Append(@, "_create_task_for_issue"),
                !.remote = @ \o (IF IsNone(GetProjectIdForRepo(repo_id, repo_id))
                                  THEN <<>> ELSE <<"POST /api/tasks">>)]

\* _handle_issue_opened(repository, issue)
HandleIssueOpened(issue, remote_ok) ==
    LET triage == TriageIssue(issue)
    IN  IF triage.raised # "none" THEN [NoEffects EXCEPT !.raised = triage.raised]
        ELSE LET a == IF triage.labels # <<>>
                      THEN ApplyLabelsToIssue(NoEffects, remote_ok) ELSE NoEffects
                 b == CreateTaskForIssue(a, issue.repo_id)
             IN  IF IsNone(triage.suggested_agent) THEN b
                 ELSE RunSteps(<<[when |-> TRUE, method |-> "_suggest_agent_for_issue"]>>,
                               issue.repo_id, b)

\* _handle_issue_event(payload)
HandleIssueEvent(payload, remote_ok) ==
    IF payload.action = "opened" THEN HandleIssueOpened(payload, remote_ok)
    ELSE IF payload.action = "labeled"
    THEN RunSteps(<<[when |-> TRUE, method |-> "_handle_issue_labeled"]>>,
                  payload.repo_id, NoEffects)
    ELSE NoEffects

\* the push handler (_handle_push_event) and _extract_issue_references

IsDigit(c) == c >= 48 /\ c <= 57

\* the value of the digits of s from position i on, after the value acc
RECURSIVE DigitsValue(_, _, _)
DigitsValue(s, i, acc) ==
    IF i <= Len(s) /\ IsDigit(s[i]) THEN DigitsValue(s, i + 1, acc * 10 + (s[i] - 48))
    ELSE acc

\* the position after the digits of s that start at position i
RECURSIVE DigitsEnd(_, _)
DigitsEnd(s, i) == IF i <= Len(s) /\ IsDigit(s[i]) THEN DigitsEnd(s, i + 1) ELSE i

\* [int(match) for match in re.findall(r'#(\d+)', message)], from position i
RECURSIVE FindIssueReferences(_, _)
FindIssueReferences(s, i) ==
    IF i > Len(s) THEN <<>>
    ELSE IF s[i] = 35 /\ i < Len(s) /\ IsDigit(s[i + 1])
    THEN <<DigitsValue(s, i + 1, 0)>> \o FindIssueReferences(s, DigitsEnd(s, i + 1))
    ELSE FindIssueReferences(s, i + 1)

ExtractIssueReferences(message) == FindIssueReferences(message, 1)

\* "fixes #", "closes #", "resolves #"
ClosureMarkers ==
    {<<102, 105, 120, 101, 115, 32, 35>>, <<99, 108, 111, 115, 101, 115, 32, 35>>,
     <<114, 101, 115, 111, 108, 118, 101, 115, 32, 35>>}

HasClosureMarker(message) ==
    \E marker \in ClosureMarkers : Contains(Lower(message), marker)

\* the two steps of the loop body for one commit
CommitSteps(message) ==
    <<[when |-> ExtractIssueReferences(message) # <<>>,
       method |-> "_update_referenced_issues"],
      [when |-> HasClosureMarker(message), method |-> "_handle_issue_closure"]>>

RECURSIVE PushSteps(_)
PushSteps(commits) ==
    IF commits = <<>> THEN <<>>
    ELSE CommitSteps(commits[1]) \o PushSteps(Tail(commits))

\* _handle_push_event(payload)
HandlePushEvent(payload) == RunSteps(PushSteps(payload.commits), payload.repo_id, NoEffects)

-----------------------------------------------------------------------------
(* Startup: BaseMCPServer.startup() awaits initialize().                   *)

\* the six event types the handler table names
HandledEventTypes ==
    {"push", "pull_request", "issues", "issue_comment", "pull_request_review",
     "workflow_run"}

\* the dict literal of _register_webhook_handlers: event type -> self.<method>
HandlerTable ==
    [e \in HandledEventTypes |->
        CASE e = "push" -> "_handle_push_event"
          [] e = "pull_request" -> "_handle_pr_event"
          [] e = "issues" -> "_handle_issue_event"
          [] e = "issue_comment" -> "_handle_comment_event"
          [] e = "pull_request_review" -> "_handle_review_event"
          [] e = "workflow_run" -> "_handle_workflow_event"]

\* _register_webhook_handlers(): evaluating the dict literal reads every
\* self.<method>; the assignment happens only if all of them exist
RegisterWebhookHandlers(current) ==
    IF \A e \in DOMAIN HandlerTable : HasAttr(HandlerTable[e])
    THEN [raised |-> "none", handlers |-> HandlerTable]
    ELSE [raised |-> "AttributeError", handlers |-> current]

\* startup() -> initialize(): init_database() and init_cache() are stubs,
\* then _register_webhook_handlers(), then _load_configurations()
Startup ==
    /\ ~started
    /\ started' = TRUE
    /\ LET r == RegisterWebhookHandlers(webhook_handlers)
       IN  /\ init_error' = r.raised
           /\ webhook_handlers' = r.handlers
           /\ pr_configs' = IF r.raised = "none" THEN <<>> ELSE pr_configs
    /\ UNCHANGED <<webhook_secret, redis_client, cache, tasks, nreq, last, hcall, vcall,
                   tcall,
                   otasks, uuids, ccalls, files, hooks, scalls>>

-----------------------------------------------------------------------------
(* POST /webhooks/github and the background task it schedules.             *)

DeliveryIds == {"d1", "d2"}

\* request.json() on the bodies of the model: "{}" and "7" parse, the rest
\* raise JSONDecodeError
ParseJson(body) ==
    IF body = <<123, 125>> THEN Some([kind |-> "object"])
    ELSE IF body = <<55>> THEN Some([kind |-> "number"])
    ELSE None

\* values of the X-Hub-Signature-256 header sent to the endpoint: absent,
\* correct for the configured secret, correct for the secret "k",
\* "sha256=invalid", and a non-ASCII value
RequestSignatures(secret, body) ==
    {None, Some(ExpectedSignature(<<107>>, body)), Some(SigPrefix \o InvalidWord),
     Some(<<233>>)}
    \cup (IF IsNone(secret) THEN {} ELSE {Some(ExpectedSignature(Get(secret), body))})

\* redis setex(key, ttl, value)
Setex(c, key, ttl, value) ==
    {e \in c : e.key # key} \cup {[key |-> key, ttl |-> ttl, value |-> value]}

NewTask(event_type, payload, delivery_id) ==
    [event_type |-> event_type, payload |-> payload, delivery_id |-> delivery_id,
     pc |-> "store", error |-> "none", log |-> <<>>]

\* add_task called twice for one delivery
AddTask_Twice(queue, event_type, payload, delivery_id) ==
    queue \o <<NewTask(event_type, payload, delivery_id),
               NewTask(event_type, payload, delivery_id)>>

\* background_tasks.add_task(self._process_webhook, event_type, payload, delivery_id)
AddTask(queue, event_type, payload, delivery_id) ==
    Append(queue, NewTask(event_type, payload, delivery_id))

\* github_webhook(request, background_tasks)
github_webhook(signature, body, event_type, delivery_id) ==
    /\ nreq < MaxRequests
    /\ nreq' = nreq + 1
    /\ LET v   == VerifyWebhookSignature(webhook_secret, body, signature)
           req == [NoRequest EXCEPT !.signature = signature, !.body = body,
                                    !.event_type = event_type,
                                    !.delivery_id = delivery_id]
       IN  IF v.raised # "none"
           THEN /\ last' = [req EXCEPT !.status = 500,
                                        !.response = [detail |-> "Internal Server Error"]]
                /\ tasks' = tasks
           ELSE IF ~v.value
           THEN /\ last' = [req EXCEPT !.status = 401,
                                        !.response = [detail |-> "Invalid signature"]]
                /\ tasks' = tasks
           ELSE IF IsNone(ParseJson(body))
           THEN /\ last' = [req EXCEPT !.status = 500,
                                        !.response = [detail |-> "Internal Server Error"]]
                /\ tasks' = tasks
           ELSE /\ Len(tasks) < MaxTasks
                /\ last' = [req EXCEPT !.status = 200,
                                        !.response = [status |-> "accepted",
                                                      delivery_id |-> delivery_id]]
                /\ tasks' = AddTask(tasks, event_type, Get(ParseJson(body)), delivery_id)
    /\ UNCHANGED <<webhook_secret, redis_client, webhook_handlers, pr_configs, started,
                   init_error, cache, hcall, vcall, tcall,
                   otasks, uuids, ccalls, files, hooks, scalls>>

\* bodies sent to the endpoint: "{}" and "["
RequestBodies == {<<123, 125>>, <<91>>}

\* X-GitHub-Event values sent to the endpoint: two types the handler table
\* names, a WebhookEvent member it does not name, and a tag outside the enum
RequestEventTypes == {"push", "issue_comment", "check_run", "unknown_tag"}

ReceiveWebhook ==
    \E body \in RequestBodies : \E signature \in RequestSignatures(webhook_secret, body) :
        \E event_type \in RequestEventTypes : \E delivery_id \in DeliveryIds :
            github_webhook(signature, body, event_type, delivery_id)

\* the handler the table names, run on a payload; the payloads that reach it
\* from the endpoint are "{}" (payload["action"], payload["repository"] raise
\* KeyError) and "7" (subscripting an int raises TypeError)
RunHandler(name, payload, configs) ==
    IF payload.kind = "number" THEN [NoEffects EXCEPT !.raised = "TypeError"]
    ELSE IF payload.kind = "object" THEN [NoEffects EXCEPT !.raised = "KeyError"]
    ELSE IF name = "_handle_pr_event" THEN HandlePrEvent(payload, configs)
    ELSE [NoEffects EXCEPT !.raised = "KeyError"]

TaskStep(i, t) ==
    /\ tasks' = [tasks EXCEPT ![i] = t]
    /\ UNCHANGED <<webhook_secret, redis_client, webhook_handlers, pr_configs, started,
                   init_error, nreq, last, hcall, vcall, tcall,
                   otasks, uuids, ccalls, files, hooks, scalls>>

\* _process_webhook: await self._store_webhook_event(event_type, payload, delivery_id)
\* (datetime.utcnow() of the i-th task's store is written as i)
StoreWebhookEvent(i, ok) ==
    /\ i \in 1..Len(tasks)
    /\ tasks[i].pc = "store"
    /\ LET t == tasks[i]
       IN  IF ~redis_client
           THEN /\ cache' = cache
                /\ TaskStep(i, [t EXCEPT !.pc = "dispatch"])
           ELSE IF ok
           THEN /\ cache' = Setex(cache, <<"webhook", t.delivery_id>>, 3600,
                                  [event_type |-> t.event_type, payload |-> t.payload,
                                   timestamp |-> i, delivery_id |-> t.delivery_id])
                /\ TaskStep(i, [t EXCEPT !.pc = "dispatch",
                                         !.log = Append(@, <<"cache", "webhook">>)])
           ELSE /\ cache' = cache
                /\ TaskStep(i, [t EXCEPT !.pc = "error", !.error = "ConnectionError"])

\* _process_webhook: handler = self.webhook_handlers.get(event_type) and its call
DispatchWebhook(i) ==
    /\ i \in 1..Len(tasks)
    /\ tasks[i].pc = "dispatch"
    /\ cache' = cache
    /\ LET t == tasks[i]
       IN  IF t.event_type \in DOMAIN webhook_handlers
           THEN LET h == webhook_handlers[t.event_type]
                    r == RunHandler(h, t.payload, pr_configs)
                    l == t.log \o <<<<"handler", h>>>>
                              \o [k \in 1..Len(r.calls) |-> <<"call", r.calls[k]>>]
                              \o [k \in 1..Len(r.remote) |-> <<"remote", r.remote[k]>>]
                IN  IF r.raised = "none"
                    THEN TaskStep(i, [t EXCEPT !.pc = "notify", !.log = l])
                    ELSE TaskStep(i, [t EXCEPT !.pc = "error", !.log = l,
                                               !.error = r.raised])
           ELSE TaskStep(i, [t EXCEPT !.pc = "notify"])

\* _notify_studio_backend(event_type, payload): the remote calls it makes; every
\* exception inside it is caught there
NotifyStudioBackend(payload) ==
    IF payload.kind = "number" THEN <<>>
    ELSE IF IsNone(GetProjectIdForRepo("owner", "name")) THEN <<>>
    ELSE <<<<"remote", "POST github-events">>>>

\* _process_webhook: await self._notify_studio_backend(event_type, payload)
NotifyBackend(i) ==
    /\ i \in 1..Len(tasks)
    /\ tasks[i].pc = "notify"
    /\ cache' = cache
    /\ LET t == tasks[i]
       IN  TaskStep(i, [t EXCEPT !.pc = "done",
                                 !.log = @ \o NotifyStudioBackend(t.payload)])

\* an except clause that goes on to the notification once the error is stored
StoreWebhookError_ThenNotify(i, ok) ==
    /\ i \in 1..Len(tasks)
    /\ tasks[i].pc = "error"
    /\ LET t == tasks[i]
       IN  IF ~redis_client
           THEN /\ cache' = cache
                /\ TaskStep(i, [t EXCEPT !.pc = "notify"])
           ELSE IF ok
           THEN /\ cache' = Setex(cache, <<"webhook:error", t.delivery_id>>, 86400,
                                  [delivery_id |-> t.delivery_id, error |-> t.error])
                /\ TaskStep(i, [t EXCEPT !.pc = "notify",
                                         !.log = Append(@, <<"cache", "webhook:error">>)])
           ELSE /\ cache' = cache
                /\ TaskStep(i, [t EXCEPT !.pc = "raised"])

\* _process_webhook: except Exception: await self._store_webhook_error(delivery_id, str(e))
StoreWebhookError(i, ok) ==
    /\ i \in 1..Len(tasks)
    /\ tasks[i].pc = "error"
    /\ LET t == tasks[i]
       IN  IF ~redis_client
           THEN /\ cache' = cache
                /\ TaskStep(i, [t EXCEPT !.pc = "done"])
           ELSE IF ok
           THEN /\ cache' = Setex(cache, <<"webhook:error", t.delivery_id>>, 86400,
                                  [delivery_id |-> t.delivery_id, error |-> t.error])
                /\ TaskStep(i, [t EXCEPT !.pc = "done",
                                         !.log = Append(@, <<"cache", "webhook:error">>)])
           ELSE /\ cache' = cache
                /\ TaskStep(i, [t EXCEPT !.pc = "raised"])

ProcessWebhook ==
    \E i \in 1..MaxTasks :
        \/ \E ok \in BOOLEAN : StoreWebhookEvent(i, ok)
        \/ DispatchWebhook(i)
        \/ NotifyBackend(i)
        \/ \E ok \in BOOLEAN : StoreWebhookError(i, ok)

Next ==
    \/ Startup
    \/ ReceiveWebhook
    \/ ProcessWebhook

Spec == Constructed /\ [][Next]_vars

-----------------------------------------------------------------------------
(* Claims about the endpoint and the background task.                      *)

\* the request carries 'sha256=' + hex HMAC(shared secret, raw body)
SignatureMatches(req) ==
    /\ ~IsNone(webhook_secret)
    /\ req.signature = Some(ExpectedSignature(Get(webhook_secret), req.body))

Accepted(req) ==
    /\ req.status = 200
    /\ req.response = [status |-> "accepted", delivery_id |-> req.delivery_id]

\* C1 as stated: a delivery is accepted (a task scheduled, 'accepted' returned)
\* only if its signature header equals 'sha256=' + hex HMAC(secret, body); every
\* other request is answered 401 and nothing is processed.
C1_AcceptedOnlyIfSigned ==
    [][nreq' # nreq =>
        /\ (Accepted(last') \/ tasks' # tasks) => SignatureMatches(last')
        /\ ~SignatureMatches(last') =>
              (last'.status = 401 /\ tasks' = tasks /\ cache' = cache)]_vars

\* C6 as stated: every request whose signature verifies is answered
\* {status: 'accepted', delivery_id} and schedules exactly one background task
\* for (event type, payload, delivery id).
C6_VerifiedIsAccepted ==
    [][(nreq' # nreq /\ SignatureMatches(last') /\ Truthy(webhook_secret)) =>
        /\ Accepted(last')
        /\ tasks' = Append(tasks, NewTask(last'.event_type, Get(ParseJson(last'.body)),
                                          last'.delivery_id))]_vars

\* C6 amended: every request whose signature verifies and whose body parses as
\* JSON is answered {status: 'accepted', delivery_id} and schedules exactly one
\* background task for (event type, payload, delivery id), not yet started; the
\* response is the same whatever the task does afterwards.
C6_VerifiedJsonIsAccepted ==
    [][/\ (nreq' # nreq /\ SignatureMatches(last') /\ Truthy(webhook_secret)
           /\ ~IsNone(ParseJson(last'.body))) =>
              /\ Accepted(last')
              /\ tasks' = Append(tasks, NewTask(last'.event_type,
                                                Get(ParseJson(last'.body)),
                                                last'.delivery_id))
              /\ tasks'[Len(tasks')].pc = "store"
       /\ nreq' = nreq => last' = last]_vars

C6_Witness ==
    /\ nreq = 1
    /\ Accepted(last)
    /\ last.delivery_id = "d2"
    /\ Len(tasks) = 1
    /\ tasks[1].pc = "raised"

HandlerRuns(t) == Cardinality({k \in 1..Len(t.log) : t.log[k][1] = "handler"})

TaskMoved(i) == i <= Len(tasks) /\ tasks'[i] # tasks[i]

Unhandled(i) == tasks[i].event_type \notin DOMAIN webhook_handlers

OnlyCacheEntries(l) == \A k \in 1..Len(l) : l[k][1] = "cache"

\* C8 as stated: processing a delivery whose event type is not in the handler
\* table (check_run, an unknown tag) completes without error, runs no handler,
\* makes no remote call and creates or changes no cache entry and no in-process
\* state.
C8_UnhandledNoEffect ==
    [][\A i \in 1..MaxTasks :
          (TaskMoved(i) /\ Unhandled(i)
           /\ tasks[i].event_type \notin HandledEventTypes) =>
              /\ tasks'[i].pc # "raised"
              /\ tasks'[i].log = tasks[i].log
              /\ cache' = cache
              /\ webhook_handlers' = webhook_handlers
              /\ pr_configs' = pr_configs]_vars

\* C8 amended: the lookup step for a delivery whose event type is not in the
\* handler table completes without error and changes nothing; over the whole
\* processing of such a delivery no handler runs, no remote call is made and no
\* in-process state changes, and the cache changes only under
\* webhook:<delivery id> and webhook:error:<delivery id>.
C8_UnhandledOnlyStores ==
    [][\A i \in 1..MaxTasks : (TaskMoved(i) /\ Unhandled(i)) =>
          /\ tasks[i].pc = "dispatch" =>
                /\ tasks'[i] = [tasks[i] EXCEPT !.pc = "notify"]
                /\ cache' = cache
          /\ OnlyCacheEntries(tasks'[i].log)
          /\ \A e \in (cache' \ cache) \cup (cache \ cache') :
                e.key \in {<<"webhook", tasks[i].delivery_id>>,
                           <<"webhook:error", tasks[i].delivery_id>>}
          /\ webhook_handlers' = webhook_handlers
          /\ pr_configs' = pr_configs]_vars

C8_Witness ==
    /\ Len(tasks) >= 1
    /\ tasks[1].event_type = "check_run"
    /\ tasks[1].pc = "done"
    /\ tasks[1].error = "none"
    /\ \E e \in cache : e.key = <<"webhook", tasks[1].delivery_id>> /\ e.ttl = 3600

\* C9 as stated: an exception raised while a delivery is processed never leaves
\* _process_webhook, and an error record keyed by the delivery id is stored
\* with a TTL.
C9_ErrorsContained ==
    \A i \in 1..Len(tasks) :
        /\ tasks[i].pc # "raised"
        /\ (tasks[i].pc = "done" /\ tasks[i].error # "none") =>
              \E e \in cache : /\ e.key = <<"webhook:error", tasks[i].delivery_id>>
                               /\ e.ttl > 0

-----------------------------------------------------------------------------
(* Specification of the event handlers called on the server object, as the *)
(* tests call them, together with _configure_pr_automation, which sets the *)
(* configuration _handle_pr_event reads.                                   *)

RepoIds == {"r1"}

\* PR titles: "WIP: x", "swipe", "fix"
Titles == {<<87, 73, 80, 58, 32, 120>>, <<115, 119, 105, 112, 101>>, <<102, 105, 120>>}

\* PR bodies: null, "hi", "Agent:@b1", "agent: !"
PrBodies ==
    {None, Some(<<104, 105>>), Some(<<65, 103, 101, 110, 116, 58, 64, 98, 49>>),
     Some(<<97, 103, 101, 110, 116, 58, 32, 33>>)}

PrPayload(action, repo_id, title, body, merged) ==
    [kind |-> "pull_request", action |-> action, repo_id |-> repo_id,
     title |-> title, body |-> body, merged |-> merged]

\* pull_request payloads: every title and body for 'opened', one payload for
\* each other action
PrPayloads ==
    {PrPayload("opened", r, t, b, FALSE) : r \in RepoIds, t \in Titles, b \in PrBodies}
    \cup {PrPayload(a, r, <<102, 105, 120>>, None, m) :
            a \in {"ready_for_review", "closed", "synchronize"},
            r \in RepoIds, m \in BOOLEAN}

\* await server._handle_pr_event(payload)
CallHandlePrEvent(payload) ==
    /\ ~hcall.done
    /\ hcall' = [done |-> TRUE, payload |-> payload,
                 config |-> GetPrConfig(pr_configs, payload.repo_id),
                 res |-> HandlePrEvent(payload, pr_configs)]
    /\ UNCHANGED <<webhook_secret, redis_client, webhook_handlers, pr_configs, started,
                   init_error, cache, tasks, nreq, last, vcall, tcall,
                   otasks, uuids, ccalls, files, hooks, scalls>>

\* arguments.get(name, default)
ArgOr(arg, default) == IF IsNone(arg) THEN default ELSE Get(arg)

\* the config built by merging the supplied fields into the stored one
ConfigFromArguments_MergeStored(args) ==
    LET stored == IF "r1" \in DOMAIN pr_configs THEN pr_configs["r1"]
                  ELSE DefaultPrConfig
    IN  [stored EXCEPT !.auto_assign = ArgOr(args.auto_assign, @),
                       !.auto_label = ArgOr(args.auto_label, @),
                       !.require_reviews = ArgOr(args.require_reviews, @),
                       !.protected_branches = ArgOr(args.protected_branches, @),
                       !.draft_on_wip = ArgOr(args.draft_on_wip, @)]

\* PRAutomationConfig(auto_assign=arguments.get("auto_assign", True), ...)
ConfigFromArguments(args) ==
    [DefaultPrConfig EXCEPT !.auto_assign = ArgOr(args.auto_assign, TRUE),
                            !.auto_label = ArgOr(args.auto_label, TRUE),
                            !.require_reviews = ArgOr(args.require_reviews, 2),
                            !.protected_branches =
                                ArgOr(args.protected_branches,
                                      <<"main", "master", "production">>),
                            !.draft_on_wip = ArgOr(args.draft_on_wip, TRUE)]

\* a store that keeps the config a repository already has
PutConfig_KeepExisting(configs, repo_id, config) ==
    [r \in DOMAIN configs \cup {repo_id} |->
        IF r \in DOMAIN configs THEN configs[r] ELSE config]

\* self.pr_configs[repo_id] = config
PutConfig(configs, repo_id, config) ==
    [r \in DOMAIN configs \cup {repo_id} |->
        IF r = repo_id THEN config ELSE configs[r]]

MaxConfigCalls == 2

\* the arguments of the configure_pr_automation calls of the model
ConfigArguments ==
    {[auto_assign |-> None, auto_label |-> None, require_reviews |-> None,
      protected_branches |-> None, draft_on_wip |-> None],
     [auto_assign |-> Some(FALSE), auto_label |-> None, require_reviews |-> None,
      protected_branches |-> None, draft_on_wip |-> None],
     [auto_assign |-> Some(TRUE), auto_label |-> Some(FALSE),
      require_reviews |-> Some(1), protected_branches |-> None,
      draft_on_wip |-> None],
     [auto_assign |-> Some(FALSE), auto_label |-> Some(FALSE),
      require_reviews |-> Some(0), protected_branches |-> Some(<<"main">>),
      draft_on_wip |-> Some(FALSE)]}

ConfigCallStep(calls) ==
    /\ ccalls' = calls
    /\ UNCHANGED <<webhook_secret, redis_client, webhook_handlers, started, init_error,
                   tasks, nreq, last, hcall, vcall, tcall, otasks, uuids, files,
                   hooks, scalls>>

\* the number of calls that have stored their config so far
Stored(calls) == Cardinality({i \in 1..Len(calls) : calls[i].order > 0})

\* _configure_pr_automation(arguments) is awaited: it runs up to
\* 'await self._get_project_info(project_id)'
ConfigureBegin(args) ==
    /\ Len(ccalls) < MaxConfigCalls
    /\ ConfigCallStep(Append(ccalls, [args |-> args, pc |-> "project", repo_id |-> "",
                                      order |-> 0,
                                      result |-> [success |-> FALSE, error |-> ""]]))
    /\ UNCHANGED <<pr_configs, cache>>

\* _get_project_info returns ("none": no githubRepoId, or a repo id) or raises:
\* the config is built from the arguments and stored under the repo id in one
\* step, up to 'await self.redis_client.setex(...)' when a cache client is bound
ConfigureStore(i, project) ==
    /\ i \in 1..Len(ccalls)
    /\ ccalls[i].pc = "project"
    /\ cache' = cache
    /\ LET c == ccalls[i]
       IN  IF project = "raise"
           THEN /\ pr_configs' = pr_configs
                /\ ConfigCallStep([ccalls EXCEPT ![i] =
                        [c EXCEPT !.pc = "done", !.result = Failure("ConnectError")]])
           ELSE IF project = "none"
           THEN /\ pr_configs' = pr_configs
                /\ ConfigCallStep([ccalls EXCEPT ![i] =
                        [c EXCEPT !.pc = "done",
                                  !.result = Failure("Project not connected to GitHub")]])
           ELSE LET config == ConfigFromArguments(c.args)
                IN  /\ pr_configs' = PutConfig(pr_configs, project, config)
                    /\ ConfigCallStep([ccalls EXCEPT ![i] =
                            [c EXCEPT !.pc = IF redis_client THEN "cache" ELSE "done",
                                      !.repo_id = project,
                                      !.order = Stored(ccalls) + 1,
                                      !.result = [success |-> TRUE, config |-> config]]])

\* the setex of pr:config:<repo id> completes (ok) or raises
ConfigurePersist(i, ok) ==
    /\ i \in 1..Len(ccalls)
    /\ ccalls[i].pc = "cache"
    /\ pr_configs' = pr_configs
    /\ LET c == ccalls[i]
       IN  IF ok
           THEN /\ cache' = Setex(cache, <<"pr:config", c.repo_id>>, 86400 * 30,
                                  c.result.config)
                /\ ConfigCallStep([ccalls EXCEPT ![i] = [c EXCEPT !.pc = "done"]])
           ELSE /\ cache' = cache
                /\ ConfigCallStep([ccalls EXCEPT ![i] =
                        [c EXCEPT !.pc = "done", !.result = Failure("ConnectionError")]])

ConfigureCall ==
    \/ \E args \in ConfigArguments : ConfigureBegin(args)
    \/ \E i \in 1..MaxConfigCalls : \E project \in {"raise", "none"} \cup RepoIds :
          ConfigureStore(i, project)
    \/ \E i \in 1..MaxConfigCalls : \E ok \in BOOLEAN : ConfigurePersist(i, ok)

HandlerCall == \E payload \in PrPayloads : CallHandlePrEvent(payload)

\* commit messages: "Fix #42", "fixes #x", "docs", "Closes #7 #8"
CommitMessages ==
    {<<70, 105, 120, 32, 35, 52, 50>>,
     <<102, 105, 120, 101, 115, 32, 35, 120>>,
     <<100, 111, 99, 115>>,
     <<67, 108, 111, 115, 101, 115, 32, 35, 55, 32, 35, 56>>}

MaxCommits == 3

PushPayload(repo_id, commits) ==
    [kind |-> "push", action |-> "", repo_id |-> repo_id, commits |-> commits]

PushPayloads ==
    {PushPayload(r, c) : r \in RepoIds,
                         c \in UNION {[1..n -> CommitMessages] : n \in 0..MaxCommits}}

\* await server._handle_push_event(payload)
CallHandlePushEvent(payload) ==
    /\ ~hcall.done
    /\ hcall' = [done |-> TRUE, payload |-> payload, config |-> [kind |-> "none"],
                 res |-> HandlePushEvent(payload)]
    /\ UNCHANGED <<webhook_secret, redis_client, webhook_handlers, pr_configs, started,
                   init_error, cache, tasks, nreq, last, vcall, tcall,
                   otasks, uuids, ccalls, files, hooks, scalls>>

PushHandlerCall == \E payload \in PushPayloads : CallHandlePushEvent(payload)

\* issue titles: "Bug", "how to", "x"
IssueTitles == {<<66, 117, 103>>, <<104, 111, 119, 32, 116, 111>>, <<120>>}

\* issue bodies: null, "", "please improve"
IssueBodies ==
    {None, Some(<<>>),
     Some(<<112, 108, 101, 97, 115, 101, 32, 105, 109, 112, 114, 111, 118, 101>>)}

IssuePayload(action, repo_id, title, body) ==
    [kind |-> "issues", action |-> action, repo_id |-> repo_id, title |-> title,
     body |-> body]

IssuePayloads ==
    {IssuePayload(a, r, t, b) : a \in {"opened", "labeled", "closed"}, r \in RepoIds,
                               t \in IssueTitles, b \in IssueBodies}

\* await server._handle_issue_event(payload)
CallHandleIssueEvent(payload, remote_ok) ==
    /\ ~hcall.done
    /\ hcall' = [done |-> TRUE, payload |-> payload, config |-> [kind |-> "none"],
                 res |-> HandleIssueEvent(payload, remote_ok)]
    /\ UNCHANGED <<webhook_secret, redis_client, webhook_handlers, pr_configs, started,
                   init_error, cache, tasks, nreq, last, vcall, tcall,
                   otasks, uuids, ccalls, files, hooks, scalls>>

IssueHandlerCall ==
    \E payload \in IssuePayloads : \E remote_ok \in BOOLEAN :
        CallHandleIssueEvent(payload, remote_ok)

InitHandler ==
    /\ Constructed
    /\ webhook_secret = None

NextHandler ==
    \/ ConfigureCall
    \/ HandlerCall
    \/ IssueHandlerCall

SpecHandler == InitHandler /\ [][NextHandler]_vars

\* the push handler called on the server as the unit tests call it
NextPush == PushHandlerCall

SpecPush == InitHandler /\ [][NextPush]_vars

\* every awaited call is resumed: the event loop runs each ready coroutine, and
\* each remote call returns or raises
SpecHandlerFair == SpecHandler /\ WF_vars(NextHandler)

-----------------------------------------------------------------------------
(* Claims about the pull_request handler.                                  *)

\* the side effects the handler of an opened PR is to perform, in order
OpenedEffects(pr, config) ==
    (IF config.draft_on_wip /\ IsWipPr(pr.title) THEN <<"_convert_pr_to_draft">> ELSE <<>>)
    \o (IF config.auto_assign THEN <<"_auto_assign_reviewers">> ELSE <<>>)
    \o (IF config.auto_label THEN <<"_auto_label_pr">> ELSE <<>>)
    \o <<"_create_task_for_pr">>
    \o (IF /\ Truthy(pr.body)
           /\ ~IsNone(ExtractAgentAssignment(Get(pr.body)))
        THEN <<"_assign_agent_to_pr">> ELSE <<>>)

\* C10 as stated: on pull_request 'opened' the handler performs, in this order
\* and each once, convert to draft (draft_on_wip and a WIP title), assign
\* reviewers (auto_assign), label (auto_label), create the tracking task
\* (always), assign an agent (a body whose 'agent:' marker parses).
C10_OpenedEffectsInOrder ==
    (hcall.done /\ hcall.payload.kind = "pull_request"
     /\ hcall.payload.action = "opened") =>
        /\ hcall.res.raised = "none"
        /\ hcall.res.calls = OpenedEffects(hcall.payload, hcall.config)

\* the part of C10 the code keeps: what an opened PR's handler does perform is
\* an initial part of that sequence
C10_OpenedEffectsPrefix ==
    (hcall.done /\ hcall.payload.kind = "pull_request"
     /\ hcall.payload.action = "opened") =>
        LET want == OpenedEffects(hcall.payload, hcall.config)
        IN  /\ Len(hcall.res.calls) <= Len(want)
            /\ hcall.res.calls = SubSeq(want, 1, Len(hcall.res.calls))

-----------------------------------------------------------------------------
(* Claims about failures inside the event handlers.                        *)

\* the side effects the handler of an opened issue is to perform, in order
IssueOpenedEffects(issue) ==
    (IF TriageIssue(issue).labels # <<>> THEN <<"_apply_labels_to_issue">> ELSE <<>>)
    \o <<"_create_task_for_issue">>

\* the handler call just made was for an opened PR or an opened issue with a
\* body
OpenedCall ==
    /\ hcall.done
    /\ hcall.payload.action = "opened"
    /\ hcall.payload.kind = "issues" => ~IsNone(hcall.payload.body)

DueEffects ==
    IF hcall.payload.kind = "issues" THEN IssueOpenedEffects(hcall.payload)
    ELSE OpenedEffects(hcall.payload, hcall.config)

\* C11 as stated: within an event handler the failure of one side effect is
\* caught at that step, so the handler does not raise and every side effect
\* that is due is still attempted; the effects already applied stay.
C11_StepFailureSwallowed ==
    OpenedCall =>
        /\ hcall.res.raised = "none"
        /\ hcall.res.calls = DueEffects

\* the part of C11 the code keeps: in the handler of an opened issue a failed
\* label call is swallowed and the task creation is still attempted
C11_IssueStepFailureSwallowed ==
    (OpenedCall /\ hcall.payload.kind = "issues") =>
        /\ hcall.res.raised = "none"
        /\ hcall.res.calls = DueEffects

-----------------------------------------------------------------------------
(* _analyze_pr_metrics(arguments): the loop over repo.get_pulls(...), the  *)
(* averages and _generate_pr_insights. Times are in days, a mean is kept   *)
(* as the pair (sum, n) it divides, with n = 0 for the initial value 0.    *)

MaxPrs == 3

\* the contributors dict is cut to its first ten entries
TopContributors == 10

\* pr.created_at, in days; the window starts on day 1
CreatedTimes == 0..2

StartDates == {1}

\* (pr.user.login, pr.labels) of the pull requests of the model
Authors == {<<"u1", <<>>>>, <<"u2", <<"bug", "ui">>>>}

\* (pr.merged, pr.state)
PrStates == {<<TRUE, "closed">>, <<FALSE, "open">>, <<FALSE, "closed">>}

PullRequest(created, st, author) ==
    [created_at |-> created, merged |-> st[1], state |-> st[2],
     merged_at |-> IF st[1] THEN Some(created + 1) ELSE None,
     user |-> author[1], labels |-> author[2],
     comments |-> 1, reviews |-> 2, additions |-> 5, deletions |-> 3]

PullRequests ==
    {PullRequest(c, st, a) : c \in CreatedTimes, st \in PrStates, a \in Authors}

\* the sequences repo.get_pulls(state="all", ...) can return
PrLists == UNION {[1..n -> PullRequests] : n \in 0..MaxPrs}

\* the values of arguments["metrics"]: the default, and one without
\* "comments" and "changes"
MetricsArgs ==
    {{"merge_time", "review_time", "comments", "changes"}, {"merge_time"}}

RECURSIVE SumSeq(_)
SumSeq(q) == IF q = <<>> THEN 0 ELSE q[1] + SumSeq(Tail(q))

\* sum(xs) / len(xs), left at the initial 0 for an empty list
Mean(q) == [sum |-> SumSeq(q), n |-> Len(q)]

MeanIsZero(m) == m.n = 0 \/ m.sum = 0

\* d[k] = d.get(k, 0) + 1 on a dict kept as a function
Bump(d, k) ==
    [x \in DOMAIN d \cup {k} |->
        IF x = k THEN (IF k \in DOMAIN d THEN d[k] ELSE 0) + 1 ELSE d[x]]

\* the same on a dict whose insertion order matters: a sequence of entries
BumpOrdered(d, k) ==
    IF \E i \in 1..Len(d) : d[i].name = k
    THEN [i \in 1..Len(d) |->
            IF d[i].name = k THEN [d[i] EXCEPT !.count = @ + 1] ELSE d[i]]
    ELSE Append(d, [name |-> k, count |-> 1])

RECURSIVE BumpAll(_, _)
BumpAll(d, ks) == IF ks = <<>> THEN d ELSE BumpAll(Bump(d, ks[1]), Tail(ks))

InitialPrMetrics ==
    [total_prs |-> 0, merged_prs |-> 0, open_prs |-> 0, closed_without_merge |-> 0,
     top_contributors |-> <<>>, label_distribution |-> <<>>, daily_activity |-> <<>>]

InitialTally ==
    [m |-> InitialPrMetrics, merge_times |-> <<>>, comment_counts |-> <<>>,
     change_counts |-> <<>>]

\* the body of the loop for one pull request
CountPr(pr, t, metrics) ==
    LET m1 == [t.m EXCEPT !.total_prs = @ + 1]
        m2 == IF pr.merged THEN [m1 EXCEPT !.merged_prs = @ + 1]
              ELSE IF pr.state = "open" THEN [m1 EXCEPT !.open_prs = @ + 1]
              ELSE [m1 EXCEPT !.closed_without_merge = @ + 1]
        m3 == [m2 EXCEPT !.top_contributors = BumpOrdered(@, pr.user),
                         !.label_distribution = BumpAll(@, pr.labels)]
    IN  [m |-> m3,
         merge_times |->
            IF pr.merged /\ ~IsNone(pr.merged_at)
            THEN Append(t.merge_times, (Get(pr.merged_at) - pr.created_at) * 24)
            ELSE t.merge_times,
         comment_counts |->
            IF "comments" \in metrics
            THEN Append(t.comment_counts, pr.comments + pr.reviews)
            ELSE t.comment_counts,
         change_counts |->
            IF "changes" \in metrics /\ pr.merged
            THEN Append(t.change_counts, pr.additions + pr.deletions)
            ELSE t.change_counts]

\* the loop with 'continue' in place of 'break'
RECURSIVE Accumulate_SkipOld(_, _, _, _)
Accumulate_SkipOld(prs, start_date, metrics, t) ==
    IF prs = <<>> THEN t
    ELSE IF prs[1].created_at < start_date
    THEN Accumulate_SkipOld(Tail(prs), start_date, metrics, t)
    ELSE Accumulate_SkipOld(Tail(prs), start_date, metrics, CountPr(prs[1], t, metrics))

\* the loop counting every closed pull request as closed without merge, the
\* merged ones too
RECURSIVE Accumulate_OpenToo(_, _, _, _)
Accumulate_OpenToo(prs, start_date, metrics, t) ==
    IF prs = <<>> THEN t
    ELSE IF prs[1].created_at < start_date THEN t
    ELSE LET c == CountPr(prs[1], t, metrics)
             d == IF prs[1].state = "closed"
                  THEN [c EXCEPT !.m.closed_without_merge = @ + 1] ELSE c
         IN  Accumulate_OpenToo(Tail(prs), start_date, metrics, d)

\* for pr in prs: if pr.created_at < start_date: break ...
RECURSIVE Accumulate(_, _, _, _)
Accumulate(prs, start_date, metrics, t) ==
    IF prs = <<>> THEN t
    ELSE IF prs[1].created_at < start_date THEN t
    ELSE Accumulate(Tail(prs), start_date, metrics, CountPr(prs[1], t, metrics))

\* sorted(items, key=count, reverse=True): stable, larger counts first
RECURSIVE InsertByCount(_, _)
InsertByCount(sorted, e) ==
    IF sorted = <<>> THEN <<e>>
    ELSE IF sorted[1].count >= e.count THEN <<sorted[1]>> \o InsertByCount(Tail(sorted), e)
    ELSE <<e>> \o sorted

RECURSIVE SortByCount(_, _)
SortByCount(d, acc) ==
    IF d = <<>> THEN acc ELSE SortByCount(Tail(d), InsertByCount(acc, d[1]))

\* dict(sorted(...)[:10])
SortTopContributors(d) ==
    LET sorted == SortByCount(d, <<>>)
    IN  SubSeq(sorted, 1, IF Len(sorted) < TopContributors THEN Len(sorted)
                          ELSE TopContributors)

\* _generate_pr_insights adding an insight for the (empty) daily activity
GeneratePrInsights_Always(m) == <<[kind |-> "daily_activity"]>>

\* _generate_pr_insights(metrics)
GeneratePrInsights(m) ==
    (IF m.total_prs > 0
     THEN <<[kind |-> "merge_rate", merged |-> m.merged_prs, total |-> m.total_prs]>>
     ELSE <<>>)
    \o (IF ~MeanIsZero(m.avg_merge_time_hours)
        THEN IF m.avg_merge_time_hours.sum < 24 * m.avg_merge_time_hours.n
             THEN <<[kind |-> "merge_time_hours", mean |-> m.avg_merge_time_hours]>>
             ELSE <<[kind |-> "merge_time_days", mean |-> m.avg_merge_time_hours]>>
        ELSE <<>>)
    \o (IF ~MeanIsZero(m.avg_comments)
        THEN <<[kind |-> "avg_comments", mean |-> m.avg_comments]>>
        ELSE <<>>)
    \o (IF m.top_contributors # <<>>
        THEN <<[kind |-> "top_contributor", name |-> m.top_contributors[1].name,
                count |-> m.top_contributors[1].count]>>
        ELSE <<>>)
    \o (IF m.open_prs > 10
        THEN <<[kind |-> "high_open_prs", open |-> m.open_prs]>>
        ELSE <<>>)

\* the metrics dict after the loop, the averages and the sort
FinalPrMetrics(t) ==
    [total_prs |-> t.m.total_prs, merged_prs |-> t.m.merged_prs,
     open_prs |-> t.m.open_prs, closed_without_merge |-> t.m.closed_without_merge,
     avg_merge_time_hours |-> Mean(t.merge_times),
     avg_review_time_hours |-> Mean(<<>>),
     avg_comments |-> Mean(t.comment_counts),
     avg_changes |-> Mean(t.change_counts),
     top_contributors |-> SortTopContributors(t.m.top_contributors),
     label_distribution |-> t.m.label_distribution,
     daily_activity |-> t.m.daily_activity]

\* _analyze_pr_metrics(arguments): project is the outcome of _get_project_info
\* ("raise", "none": no githubRepoId, or a repo id), github that of the GitHub
\* client ("raise": no client bound or the API fails, "ok": it returns prs)
AnalyzePrMetrics(project, github, prs, start_date, metrics) ==
    IF project = "raise" THEN Failure("ConnectError")
    ELSE IF project = "none" THEN Failure("Project not connected to GitHub")
    ELSE IF github = "raise" THEN Failure("GithubException")
    ELSE LET m == FinalPrMetrics(Accumulate(prs, start_date, metrics, InitialTally))
         IN  [success |-> TRUE, metrics |-> m, insights |-> GeneratePrInsights(m),
              timeframe |-> [start |-> start_date]]

\* await server._analyze_pr_metrics(arguments); the pull requests are fetched
\* only once the project and the repository have been resolved
AnalyzeCall(project, github, prs, start_date, metrics) ==
    /\ tcall' = [done |-> TRUE, tool |-> "analyze_pr_metrics",
                 args |-> [project |-> project, github |-> github, prs |-> prs,
                           start_date |-> start_date, metrics |-> metrics],
                 result |-> AnalyzePrMetrics(project, github, prs, start_date, metrics)]
    /\ UNCHANGED <<webhook_secret, redis_client, webhook_handlers, pr_configs, started,
                   init_error, cache, tasks, nreq, last, hcall, vcall,
                   otasks, uuids, ccalls, files, hooks, scalls>>

NextMetrics ==
    /\ ~tcall.done
    /\ \E start_date \in StartDates : \E metrics \in MetricsArgs :
          \/ \E prs \in PrLists : AnalyzeCall("r1", "ok", prs, start_date, metrics)
          \/ \E project \in {"raise", "none"} :
                AnalyzeCall(project, "ok", <<>>, start_date, metrics)
          \/ AnalyzeCall("r1", "raise", <<>>, start_date, metrics)

SpecMetrics == InitHandler /\ [][NextMetrics]_vars

-----------------------------------------------------------------------------
(* Claims about analyze_pr_metrics.                                        *)

\* the call just made returned metrics
Analyzed ==
    /\ tcall.done
    /\ tcall.tool = "analyze_pr_metrics"
    /\ tcall.result.success

InWindow(pr) == pr.created_at >= tcall.args.start_date

\* the pull requests before the first one created before the window start
RECURSIVE BeforeFirstOld(_, _)
BeforeFirstOld(prs, start_date) ==
    IF prs = <<>> \/ prs[1].created_at < start_date THEN <<>>
    ELSE <<prs[1]>> \o BeforeFirstOld(Tail(prs), start_date)

Counted == BeforeFirstOld(tcall.args.prs, tcall.args.start_date)

CountOf(q, P(_)) == Cardinality({i \in 1..Len(q) : P(q[i])})

IsMerged(pr) == pr.merged

IsOpen(pr) == ~pr.merged /\ pr.state = "open"

IsClosedUnmerged(pr) == ~pr.merged /\ pr.state # "open"

DictTotal(d) == SumSeq([i \in 1..Len(d) |-> d[i].count])

LabelUses(q) == SumSeq([i \in 1..Len(q) |-> Len(q[i].labels)])

RECURSIVE FnTotal(_)
FnTotal(d) ==
    IF DOMAIN d = {} THEN 0
    ELSE LET k == CHOOSE x \in DOMAIN d : TRUE
         IN  d[k] + FnTotal([x \in DOMAIN d \ {k} |-> d[x]])

\* C12: the loop stops at the first pull request, in the order the API
\* returns them, created before the window start: that one and all after it
\* add to no count, contributor tally, label tally or average, and every one
\* before it is counted once in total_prs.
C12_StopsAtFirstOld ==
    Analyzed =>
        LET m == tcall.result.metrics
        IN  /\ m.total_prs = Len(Counted)
            /\ m.merged_prs + m.open_prs + m.closed_without_merge = Len(Counted)
            /\ DictTotal(m.top_contributors) = Len(Counted)
            /\ FnTotal(m.label_distribution) = LabelUses(Counted)
            /\ m.avg_merge_time_hours.n = CountOf(Counted, IsMerged)
            /\ m.avg_comments.n = IF "comments" \in tcall.args.metrics
                                  THEN Len(Counted) ELSE 0
            /\ m.avg_changes.n = IF "changes" \in tcall.args.metrics
                                 THEN CountOf(Counted, IsMerged) ELSE 0

\* an in-window pull request follows one created before the window start
C12_Witness ==
    /\ Analyzed
    /\ Len(tcall.args.prs) = 3
    /\ ~InWindow(tcall.args.prs[2])
    /\ InWindow(tcall.args.prs[3])
    /\ tcall.result.metrics.total_prs = 1

\* C13: over an empty pull-request list, for a connected project, the call
\* returns success with all counts and averages zero, empty contributor and
\* label maps and no insight.
C13_EmptyListAllZero ==
    (tcall.done /\ tcall.tool = "analyze_pr_metrics" /\ tcall.args.prs = <<>>
     /\ tcall.args.project \in RepoIds /\ tcall.args.github = "ok") =>
        /\ tcall.result.success
        /\ LET m == tcall.result.metrics
           IN  /\ m.total_prs = 0 /\ m.merged_prs = 0 /\ m.open_prs = 0
               /\ m.closed_without_merge = 0
               /\ MeanIsZero(m.avg_merge_time_hours)
               /\ MeanIsZero(m.avg_review_time_hours)
               /\ MeanIsZero(m.avg_comments)
               /\ MeanIsZero(m.avg_changes)
               /\ m.top_contributors = <<>>
               /\ m.label_distribution = <<>>
        /\ tcall.result.insights = <<>>

C13_Witness ==
    /\ Analyzed
    /\ tcall.args.prs = <<>>
    /\ tcall.result.insights = <<>>

\* C14: every in-window pull request is counted in exactly one of merged_prs,
\* open_prs and closed_without_merge, so the three sum to total_prs, and the
\* per-contributor counts sum to total_prs (at most 10 contributors).
C14_CountsPartition ==
    Analyzed =>
        LET m == tcall.result.metrics
        IN  /\ m.merged_prs = CountOf(Counted, IsMerged)
            /\ m.open_prs = CountOf(Counted, IsOpen)
            /\ m.closed_without_merge = CountOf(Counted, IsClosedUnmerged)
            /\ m.total_prs = m.merged_prs + m.open_prs + m.closed_without_merge
            /\ Len(m.top_contributors) <= TopContributors =>
                  DictTotal(m.top_contributors) = m.total_prs

\* pull requests of all three kinds by two contributors were counted
C14_Witness ==
    /\ Analyzed
    /\ tcall.result.metrics.merged_prs = 1
    /\ tcall.result.metrics.open_prs = 1
    /\ tcall.result.metrics.closed_without_merge = 1
    /\ Len(tcall.result.metrics.top_contributors) = 2

-----------------------------------------------------------------------------
(* The catalog routes of BaseMCPServer._setup_routes on the three servers: *)
(* POST /tools/{name}, POST /prompts/{name}, GET /resources/{uri}.         *)

Servers == {"github", "orchestrator", "context"}

Kinds == {"tool", "prompt", "resource"}

\* self.tools / self.prompts / self.resources after __init__ of each server
Catalog(server, kind) ==
    CASE server = "github" /\ kind = "tool" ->
            {"connect_repository", "create_issue_from_slack", "create_automated_pr",
             "manage_pr_reviewers", "assign_agent_to_issue", "configure_pr_automation",
             "setup_webhooks", "analyze_pr_metrics"}
      [] server = "github" /\ kind = "prompt" ->
            {"pr-description", "issue-triage", "code-review"}
      [] server = "github" /\ kind = "resource" ->
            {"repositories", "webhooks", "pr-automation", "agent-mappings",
             "issue-templates"}
      [] server = "orchestrator" /\ kind = "tool" ->
            {"breakdown_epic", "assign_task", "track_progress", "resolve_dependencies",
             "optimize_schedule", "create_workflow"}
      [] server = "orchestrator" /\ kind = "prompt" ->
            {"plan-feature", "status-report", "rebalance-workload"}
      [] server = "orchestrator" /\ kind = "resource" ->
            {"task-queue", "agent-status", "project-timeline", "workflow-definitions"}
      [] server = "context" /\ kind = "tool" ->
            {"save_context", "restore_context", "track_decision", "query_knowledge",
             "suggest_next_action", "initialize_project"}
      [] server = "context" /\ kind = "prompt" ->
            {"resume-project", "explain-codebase", "suggest-next-task"}
      [] server = "context" /\ kind = "resource" ->
            {"project-state", "decision-records", "code-patterns", "learning-insights"}

\* names no catalog holds
UnknownNames == {"no_such_name", "breakdown-epic"}

\* the tool_handlers dict literal of the GitHub server's call_tool_impl
GithubToolHandlers ==
    [n \in Catalog("github", "tool") |->
        CASE n = "connect_repository" -> "_connect_repository"
          [] n = "create_issue_from_slack" -> "_create_issue_from_slack"
          [] n = "create_automated_pr" -> "_create_automated_pr"
          [] n = "manage_pr_reviewers" -> "_manage_pr_reviewers"
          [] n = "assign_agent_to_issue" -> "_assign_agent_to_issue"
          [] n = "configure_pr_automation" -> "_configure_pr_automation"
          [] n = "setup_webhooks" -> "_setup_webhooks"
          [] n = "analyze_pr_metrics" -> "_analyze_pr_metrics"]

\* the uris the if/elif chain of each get_resource_content answers
ResourceBranches(server) ==
    CASE server = "github" ->
            {"repositories", "webhooks", "pr-automation", "agent-mappings"}
      [] server = "orchestrator" -> {"task-queue", "agent-status", "project-timeline"}
      [] server = "context" ->
            {"project-state", "decision-records", "code-patterns", "learning-insights"}

\* the names the if/elif chain of the orchestrator's and the context server's
\* call_tool_impl answers
ToolBranches(server) ==
    CASE server = "orchestrator" ->
            {"breakdown_epic", "assign_task", "track_progress", "resolve_dependencies",
             "optimize_schedule", "create_workflow"}
      [] server = "context" ->
            {"save_context", "restore_context", "track_decision", "query_knowledge",
             "suggest_next_action", "initialize_project"}

\* the names the if/elif chain of each get_prompt_impl answers
PromptBranches(server) ==
    CASE server = "github" -> {"pr-description", "issue-triage", "code-review"}
      [] server = "orchestrator" -> {"plan-feature", "status-report", "rebalance-workload"}
      [] server = "context" -> {"resume-project", "explain-codebase", "suggest-next-task"}

Response(status, impl, outcome, body) ==
    [status |-> status, impl |-> impl, outcome |-> outcome, body |-> body]

\* a tool method: its body sits in try/except Exception, so a failing
\* downstream call gives {success: False, error: str(e)}
ToolMethod(downstream) ==
    IF downstream = "raise"
    THEN Response(200, TRUE, "handled", Failure("ConnectError"))
    ELSE Response(200, TRUE, "handled", [success |-> TRUE])

\* call_tool_impl(tool_name, arguments)
CallToolImpl(server, name, downstream) ==
    IF server = "github"
    THEN IF \E n \in DOMAIN GithubToolHandlers : ~HasAttr(GithubToolHandlers[n])
         THEN Response(500, TRUE, "raised", [error |-> "AttributeError"])
         ELSE IF name \in DOMAIN GithubToolHandlers THEN ToolMethod(downstream)
         ELSE Response(200, TRUE, "not_implemented", [error |-> "Tool not implemented"])
    ELSE IF name \in ToolBranches(server) THEN ToolMethod(downstream)
    ELSE Response(200, TRUE, "not_implemented", [error |-> "Tool not implemented"])

\* get_prompt_impl(prompt_name, arguments)
GetPromptImpl(server, name) ==
    IF name \in PromptBranches(server)
    THEN Response(200, TRUE, "handled", [messages |-> name])
    ELSE Response(200, TRUE, "not_implemented", [error |-> "Prompt not implemented"])

\* get_resource_content(uri); the context server reads a file that has to exist
GetResourceContent(server, uri, file_exists) ==
    IF uri \in ResourceBranches(server) /\ (server = "context" => file_exists)
    THEN Response(200, TRUE, "handled", [contents |-> uri])
    ELSE Response(200, TRUE, "not_found", [error |-> "Resource not found"])

NotFound(kind) ==
    Response(404, FALSE, "http_404",
             [detail |-> CASE kind = "tool" -> "Tool not found"
                           [] kind = "prompt" -> "Prompt not found"
                           [] kind = "resource" -> "Resource not found"])

Implementation(server, kind, name, downstream, file_exists) ==
    CASE kind = "tool" -> CallToolImpl(server, name, downstream)
      [] kind = "prompt" -> GetPromptImpl(server, name)
      [] kind = "resource" -> GetResourceContent(server, name, file_exists)

\* the routes without the catalog test
Route_NoCatalogTest(server, kind, name, downstream, file_exists) ==
    Implementation(server, kind, name, downstream, file_exists)

\* call_tool / get_prompt / get_resource of _setup_routes
Route(server, kind, name, downstream, file_exists) ==
    IF name \notin Catalog(server, kind) THEN NotFound(kind)
    ELSE Implementation(server, kind, name, downstream, file_exists)

\* one request to a catalog route of one server
CatalogRequest(server, kind, name, downstream, file_exists) ==
    /\ nreq < MaxRequests
    /\ nreq' = nreq + 1
    /\ tcall' = [done |-> TRUE, tool |-> "route",
                 args |-> [server |-> server, kind |-> kind, name |-> name,
                           downstream |-> downstream, file_exists |-> file_exists],
                 result |-> Route(server, kind, name, downstream, file_exists)]
    /\ UNCHANGED <<webhook_secret, redis_client, webhook_handlers, pr_configs, started,
                   init_error, cache, tasks, last, hcall, vcall,
                   otasks, uuids, ccalls, files, hooks, scalls>>

NextRoutes ==
    \E server \in Servers : \E kind \in Kinds :
        \E name \in Catalog(server, kind) \cup UnknownNames :
            \E downstream \in {"ok", "raise"} : \E file_exists \in BOOLEAN :
                CatalogRequest(server, kind, name, downstream, file_exists)

SpecRoutes == InitHandler /\ [][NextRoutes]_vars

-----------------------------------------------------------------------------
(* Claims about the catalog routes.                                        *)

Routed == tcall.done /\ tcall.tool = "route"

Registered == tcall.args.name \in Catalog(tcall.args.server, tcall.args.kind)

\* C15: on every server a request naming a tool, prompt or resource that is
\* not in the catalog is answered 404, and call_tool_impl / get_prompt_impl /
\* get_resource_content is not invoked.
C15_UnknownNameIs404 ==
    (Routed /\ ~Registered) =>
        /\ tcall.result.status = 404
        /\ ~tcall.result.impl

C15_Witness ==
    /\ Routed
    /\ tcall.args.server = "github"
    /\ tcall.args.kind = "tool"
    /\ tcall.args.name = "no_such_name"
    /\ tcall.result.status = 404

\* C16 as stated: a request for any name registered in a server's catalog
\* reaches a handler: no 'not found' or 'not implemented' result and no
\* exception from the lookup.
C16_RegisteredNameHandled ==
    (Routed /\ Registered) =>
        /\ tcall.result.impl
        /\ tcall.result.outcome = "handled"

\* the part of C16 the code keeps: every registered prompt, every registered
\* tool of the orchestrator and of the context server, and every resource an
\* if/elif branch names (with its file present) reaches its handler
C16_BranchedNameHandled ==
    (Routed /\ Registered) =>
        (tcall.result.outcome = "handled" <=>
            CASE tcall.args.kind = "tool" -> tcall.args.server # "github"
              [] tcall.args.kind = "prompt" -> TRUE
              [] tcall.args.kind = "resource" ->
                    /\ tcall.args.name \in ResourceBranches(tcall.args.server)
                    /\ tcall.args.server = "context" => tcall.args.file_exists)

\* C17 as stated: a tool call on the GitHub server whose downstream call
\* raises returns {success: false, error: <message>}; the exception does not
\* leave the tool call.
C17_DownstreamFailureReturned ==
    (Routed /\ Registered /\ tcall.args.server = "github" /\ tcall.args.kind = "tool"
     /\ tcall.args.downstream = "raise") =>
        /\ tcall.result.status = 200
        /\ tcall.result.outcome = "handled"
        /\ tcall.result.body = Failure("ConnectError")

-----------------------------------------------------------------------------
(* The orchestrator: breakdown_epic, assign_task and track_progress on the *)
(* in-memory task store. A uuid4() value is the number of its draw.        *)

MaxOrchCalls == 3

MaxCriteria == 1

\* class TaskStatus
TaskStatus == {"pending", "in_progress", "completed", "blocked", "failed"}

\* truth value of an optional name (None and "" are falsy)
TruthyName(x) == ~IsNone(x) /\ Get(x) # ""

\* one task dict of _generate_task_breakdown
NewOrchTask(id, type, priority, dependencies) ==
    [id |-> id, type |-> type, priority |-> priority, status |-> "pending",
     dependencies |-> dependencies, assigned_to |-> "unset", progress_history |-> <<>>]

\* a breakdown whose feature tasks depend on the epic instead of the design task
GenerateTaskBreakdown_DependsOnEpic(first, criteria) ==
    <<NewOrchTask(first + 1, "design", "high", <<>>),
      NewOrchTask(first + 2, "implementation", "medium", <<>>),
      NewOrchTask(first + 3, "testing", "medium", <<>>)>>
    \o [i \in 1..criteria |-> NewOrchTask(first + 3 + i, "feature", "medium",
                                          <<first + 3 + criteria + 1>>)]

\* _generate_task_breakdown(title, description, criteria): three base tasks,
\* then one task per acceptance criterion that depends on the design task
GenerateTaskBreakdown(first, criteria) ==
    <<NewOrchTask(first + 1, "design", "high", <<>>),
      NewOrchTask(first + 2, "implementation", "medium", <<>>),
      NewOrchTask(first + 3, "testing", "medium", <<>>)>>
    \o [i \in 1..criteria |-> NewOrchTask(first + 3 + i, "feature", "medium",
                                          <<first + 1>>)]

\* for task in tasks: self.tasks[task["id"]] = task
StoreTasks(store, new) ==
    LET ids == {new[i].id : i \in 1..Len(new)}
    IN  [id \in DOMAIN store \cup ids |->
            IF id \in ids THEN new[CHOOSE i \in 1..Len(new) : new[i].id = id]
            ELSE store[id]]

OrchCall(tool, args, result) ==
    /\ nreq < MaxOrchCalls
    /\ nreq' = nreq + 1
    /\ tcall' = [done |-> TRUE, tool |-> tool, args |-> args, result |-> result]
    /\ UNCHANGED <<webhook_secret, redis_client, webhook_handlers, pr_configs, started,
                   init_error, cache, tasks, last, hcall, vcall, ccalls, files, hooks,
                   scalls>>

\* _breakdown_epic(arguments): arguments["epic_title"] raises KeyError when
\* the key is missing
BreakdownEpic(has_title, criteria) ==
    LET args == [has_title |-> has_title, criteria |-> criteria]
    IN  IF ~has_title
        THEN /\ OrchCall("breakdown_epic", args, Failure("KeyError"))
             /\ UNCHANGED <<otasks, uuids, ccalls, files, hooks, scalls>>
        ELSE LET new  == GenerateTaskBreakdown(uuids, criteria)
                 epic == uuids + Len(new) + 1
             IN  /\ uuids' = epic
                 /\ otasks' = StoreTasks(otasks, new)
                 /\ OrchCall("breakdown_epic", args,
                             [success |-> TRUE,
                              epic |-> [id |-> epic, status |-> "pending",
                                        tasks |-> [i \in 1..Len(new) |-> new[i].id]],
                              task_count |-> Len(new)])

\* "status": "assigned" if agent_id else "pending"
AssignedStatus(agent_id) == IF TruthyName(agent_id) THEN "assigned" ELSE "pending"

\* _assign_task(arguments)
AssignTask(task_id, agent_id, priority) ==
    LET args == [task_id |-> task_id, agent_id |-> agent_id, priority |-> priority]
    IN  /\ uuids' = uuids
        /\ IF IsNone(task_id)
           THEN /\ OrchCall("assign_task", args, Failure("KeyError"))
                /\ otasks' = otasks
           ELSE IF Get(task_id) \notin DOMAIN otasks
           THEN /\ OrchCall("assign_task", args, Failure("Task not found"))
                /\ otasks' = otasks
           ELSE LET task == [otasks[Get(task_id)] EXCEPT
                                !.assigned_to = IF IsNone(agent_id) THEN "none"
                                                ELSE Get(agent_id),
                                !.priority = priority,
                                !.status = AssignedStatus(agent_id)]
                IN  /\ otasks' = [otasks EXCEPT ![Get(task_id)] = task]
                    /\ OrchCall("assign_task", args, [success |-> TRUE, task |-> task])

\* _track_progress that files the update under the named id, known or not
TrackProgress_Upsert(task_id, status_update) ==
    LET args == [task_id |-> task_id, status_update |-> status_update]
    IN  /\ uuids' = uuids
        /\ IF ~IsNone(task_id)
           THEN LET old  == IF Get(task_id) \in DOMAIN otasks THEN otasks[Get(task_id)]
                            ELSE NewOrchTask(Get(task_id), "feature", "medium", <<>>)
                    task == [old EXCEPT
                                !.status = IF TruthyName(status_update)
                                           THEN Get(status_update) ELSE @,
                                !.progress_history = Append(@, "update")]
                IN  /\ otasks' = StoreTasks(otasks, <<task>>)
                    /\ OrchCall("track_progress", args, [success |-> TRUE, task |-> task])
           ELSE /\ otasks' = otasks
                /\ OrchCall("track_progress", args,
                            [success |-> TRUE,
                             progress |-> [total_tasks |-> Cardinality(DOMAIN otasks)]])

\* _track_progress(arguments)
TrackProgress(task_id, status_update) ==
    LET args == [task_id |-> task_id, status_update |-> status_update]
    IN  /\ uuids' = uuids
        /\ IF ~IsNone(task_id) /\ Get(task_id) \in DOMAIN otasks
           THEN LET old  == otasks[Get(task_id)]
                    task == [old EXCEPT
                                !.status = IF TruthyName(status_update)
                                           THEN Get(status_update) ELSE @,
                                !.progress_history = Append(@, "update")]
                IN  /\ otasks' = [otasks EXCEPT ![Get(task_id)] = task]
                    /\ OrchCall("track_progress", args, [success |-> TRUE, task |-> task])
           ELSE /\ otasks' = otasks
                /\ OrchCall("track_progress", args,
                            [success |-> TRUE,
                             progress |-> [total_tasks |-> Cardinality(DOMAIN otasks)]])

\* task ids named in a call: absent, the ids drawn so far, and one never drawn
CalledTaskIds == {None} \cup {Some(i) : i \in 1..uuids} \cup {Some(0)}

\* agent_id: absent, "", "a1"
AgentIds == {None, Some(""), Some("a1")}

\* status_update: absent, "", two members of the schema's enum and a value
\* outside it
StatusUpdates == {None, Some(""), Some("in_progress"), Some("completed"), Some("done")}

BreakdownCall ==
    \E has_title \in BOOLEAN : \E criteria \in 0..MaxCriteria :
        BreakdownEpic(has_title, criteria)

AssignCall ==
    \E task_id \in CalledTaskIds : \E agent_id \in AgentIds :
        \E priority \in {"medium", "critical"} : AssignTask(task_id, agent_id, priority)

TrackCall ==
    \E task_id \in CalledTaskIds : \E status_update \in StatusUpdates :
        TrackProgress(task_id, status_update)

NextOrchestrator ==
    \/ BreakdownCall
    \/ AssignCall
    \/ TrackCall

SpecOrchestrator == InitHandler /\ [][NextOrchestrator]_vars

-----------------------------------------------------------------------------
(* Claims about the orchestrator's task store.                             *)

\* C18 as stated: after any sequence of breakdown_epic, assign_task and
\* track_progress calls every task in the store has a status that is one of
\* pending, in_progress, completed, blocked, failed.
C18_StatusInEnum ==
    \A id \in DOMAIN otasks : otasks[id].status \in TaskStatus

-----------------------------------------------------------------------------
(* Claims about the stored delivery records.                               *)

IsDeliveryRecord(e) == e.key[1] = "webhook"

\* C19 as stated: a delivery record, once stored under its delivery id, is
\* never updated: whatever deliveries are accepted afterwards, a redelivery
\* with the same id included, the record under that key keeps its content.
C19_RecordNeverUpdated ==
    [][\A e \in cache : IsDeliveryRecord(e) => e \in cache']_vars

\* the part of C19 the code keeps: a delivery record changes only when a
\* delivery with the same id is stored, and there is one record per id
C19_RecordUpdatedOnlyByRedelivery ==
    [][\A e \in cache : (IsDeliveryRecord(e) /\ e \notin cache') =>
          \E i \in 1..Len(tasks) :
              /\ tasks[i].pc = "store"
              /\ tasks'[i].pc = "dispatch"
              /\ tasks[i].delivery_id = e.key[2]
              /\ \E f \in cache' : f.key = e.key /\ f.value.timestamp = i]_vars

-----------------------------------------------------------------------------
(* Claims about concurrent updates of self.pr_configs.                     *)

\* the config a call's arguments determine: the supplied fields, defaults for
\* the rest
ConfigOfArguments(args) ==
    [auto_assign |-> IF IsNone(args.auto_assign) THEN TRUE ELSE Get(args.auto_assign),
     auto_label |-> IF IsNone(args.auto_label) THEN TRUE ELSE Get(args.auto_label),
     require_reviews |-> IF IsNone(args.require_reviews) THEN 2
                         ELSE Get(args.require_reviews),
     protected_branches |-> IF IsNone(args.protected_branches)
                            THEN <<"main", "master", "production">>
                            ELSE Get(args.protected_branches),
     draft_on_wip |-> IF IsNone(args.draft_on_wip) THEN TRUE
                      ELSE Get(args.draft_on_wip),
     close_stale_after_days |-> 30]

\* call i is the one that stored last under repo_id
LastWriter(i, repo_id) ==
    /\ ccalls[i].order > 0
    /\ ccalls[i].repo_id = repo_id
    /\ \A j \in 1..Len(ccalls) :
          ccalls[j].repo_id = repo_id => ccalls[j].order <= ccalls[i].order

\* the value under a key is not what the arguments of its last writer
\* determine: it was computed from something read earlier
StaleUpdate ==
    \E repo_id \in DOMAIN pr_configs : \E i \in 1..Len(ccalls) :
        /\ LastWriter(i, repo_id)
        /\ pr_configs[repo_id] # ConfigOfArguments(ccalls[i].args)

\* a step that changes the dictionary is the store step of one call and puts
\* under that call's repo id the config its arguments determine
StoresFromArguments ==
    pr_configs' # pr_configs =>
        \E i \in 1..Len(ccalls) :
            /\ ccalls[i].pc = "project"
            /\ ccalls'[i].order = Stored(ccalls) + 1
            /\ hcall' = hcall
            /\ DOMAIN pr_configs' = DOMAIN pr_configs \cup {ccalls'[i].repo_id}
            /\ \A r \in DOMAIN pr_configs' :
                  pr_configs'[r] = IF r = ccalls'[i].repo_id
                                   THEN ConfigOfArguments(ccalls[i].args)
                                   ELSE pr_configs[r]

-----------------------------------------------------------------------------
(* The context server (src/claude-framework/mcp-servers/context/main.py):  *)
(* save_context and initialize_project over the JSON files of the context  *)
(* directory.  A JSON object is a function from its keys, datetime.utcnow() *)
(* is the number of the request being served, and a session id is either   *)
(* the supplied name or the time it defaults to.                           *)

\* history["sessions"][-100:], scaled to the runs of the model
SessionLimit == 3

MaxSaves == 5

EmptyDict == [k \in {} |-> None]

\* d.update(e)
DictUpdate(d, e) ==
    [k \in DOMAIN d \cup DOMAIN e |-> IF k \in DOMAIN e THEN e[k] ELSE d[k]]

\* d.get(k, default)
DictGet(d, k, default) == IF k \in DOMAIN d THEN d[k] ELSE default

\* the text of a file: a JSON object, another JSON value, or no JSON at all
JsonObject(d) == [kind |-> "object", dict |-> d]

JsonArray == [kind |-> "array", dict |-> EmptyDict]

InvalidJson == [kind |-> "invalid", dict |-> EmptyDict]

\* open(path, 'w') followed by json.dump
WriteFile(dir, name, content) ==
    [n \in DOMAIN dir \cup {name} |-> IF n = name THEN content ELSE dir[n]]

NamedSession(name) == [name |-> name, time |-> 0]

TimedSession(now) == [name |-> "", time |-> now]

\* _ensure_context_files(): each missing file is created as '{}'
ContextFiles ==
    {"project_state.json", "decision_records.json", "code_patterns.json",
     "learning_insights.json", "session_history.json"}

EnsureContextFiles(dir) ==
    [n \in DOMAIN dir \cup ContextFiles |->
        IF n \in DOMAIN dir THEN dir[n] ELSE JsonObject(EmptyDict)]

\* q[-n:]
LastSessions_First(q, n) == IF Len(q) <= n THEN q ELSE SubSeq(q, 1, n)

LastSessions(q, n) == IF Len(q) <= n THEN q ELSE SubSeq(q, Len(q) - n + 1, Len(q))

SessionEntry(session_id, now, auto_save, context_data) ==
    [session_id |-> session_id, timestamp |-> now, auto_save |-> auto_save,
     context_summary |-> DictGet(context_data, "summary", "")]

\* _save_context(arguments) at time now: the files it leaves and its result
SaveContext(dir, arguments, now) ==
    LET session_id == IF IsNone(arguments.session_id) THEN TimedSession(now)
                      ELSE NamedSession(Get(arguments.session_id))
        auto_save  == ArgOr(arguments.auto_save, FALSE)
    IN  IF arguments.context_data.kind # "object"
        THEN [files |-> dir, result |-> Failure("AttributeError")]
        ELSE
        LET context_data ==
                DictUpdate(arguments.context_data.dict,
                           [k \in {"last_updated", "session_id", "auto_save"} |->
                               IF k = "last_updated" THEN Some(now)
                               ELSE IF k = "session_id" THEN Some(session_id)
                               ELSE Some(auto_save)])
            written == WriteFile(dir, "project_state.json", JsonObject(context_data))
        IN  IF "session_history.json" \notin DOMAIN dir
            THEN [files |-> written, result |-> Failure("FileNotFoundError")]
            ELSE IF dir["session_history.json"].kind = "invalid"
            THEN [files |-> written, result |-> Failure("JSONDecodeError")]
            ELSE IF dir["session_history.json"].kind = "array"
            THEN [files |-> written, result |-> Failure("TypeError")]
            ELSE
            LET history  == dir["session_history.json"].dict
                sessions == DictGet(history, "sessions", <<>>)
                entry    == SessionEntry(session_id, now, auto_save,
                                         arguments.context_data.dict)
                kept     == LastSessions(Append(sessions, entry), SessionLimit)
            IN  [files |-> WriteFile(written, "session_history.json",
                                     JsonObject(DictUpdate(history,
                                         [k \in {"sessions"} |-> kept]))),
                 result |-> [success |-> TRUE, session_id |-> session_id]]

\* _initialize_project(arguments)
InitializeProject(dir, arguments, now) ==
    IF IsNone(arguments.project_name)
    THEN [files |-> dir, result |-> Failure("KeyError")]
    ELSE LET project_data == [name |-> Get(arguments.project_name),
                              description |-> "", tech_stack |-> <<>>,
                              created_at |-> now, status |-> "active"]
         IN  [files |-> WriteFile(dir, "project_state.json",
                                  JsonObject([k \in {"project"} |-> Some(project_data)])),
              result |-> [success |-> TRUE, project |-> project_data]]

\* the arguments of the save_context calls of the model; the values of
\* context_data are wrapped as options, "summary" holds a string
SaveArguments ==
    {[context_data |-> JsonObject(EmptyDict), session_id |-> None,
      auto_save |-> None],
     [context_data |-> JsonObject([k \in {"summary"} |-> "s"]),
      session_id |-> Some("s1"), auto_save |-> Some(TRUE)],
     [context_data |-> JsonObject([k \in {"summary"} |-> "t"]),
      session_id |-> None, auto_save |-> Some(FALSE)],
     [context_data |-> JsonArray, session_id |-> Some("s1"), auto_save |-> None]}

\* the context directories the server is constructed on: a fresh one, one whose
\* history file is not JSON or not an object, and one left by an earlier run
Directories ==
    {EmptyDirectory,
     [n \in {"session_history.json"} |-> InvalidJson],
     [n \in {"session_history.json"} |-> JsonArray],
     [n \in {"project_state.json", "session_history.json"} |->
        IF n = "project_state.json"
        THEN JsonObject([k \in {"project"} |-> Some([name |-> "p0", description |-> "",
                                                    tech_stack |-> <<>>, created_at |-> 0,
                                                    status |-> "active"])])
        ELSE JsonObject([k \in {"sessions"} |->
                 <<SessionEntry(NamedSession("s0"), 0, FALSE, EmptyDict)>>])]}

ContextCall(tool, arguments, out) ==
    /\ nreq < MaxSaves
    /\ nreq' = nreq + 1
    /\ files' = out.files
    /\ tcall' = [done |-> TRUE, tool |-> tool, args |-> arguments, result |-> out.result]
    /\ UNCHANGED <<webhook_secret, redis_client, webhook_handlers, pr_configs, started,
                   init_error, cache, tasks, last, hcall, vcall, otasks, uuids, ccalls,
                   hooks, scalls>>

\* POST /tools/save_context
SaveContextCall ==
    \E arguments \in SaveArguments :
        ContextCall("save_context", arguments, SaveContext(files, arguments, nreq + 1))

\* POST /tools/initialize_project
InitializeProjectCall ==
    \E arguments \in {[project_name |-> None], [project_name |-> Some("p1")]} :
        ContextCall("initialize_project", arguments,
                    InitializeProject(files, arguments, nreq + 1))

\* initialize(): the three init_* stubs, then _ensure_context_files()
ContextInitialize ==
    /\ ~started
    /\ started' = TRUE
    /\ files' = EnsureContextFiles(files)
    /\ UNCHANGED <<webhook_secret, redis_client, webhook_handlers, pr_configs,
                   init_error, cache, tasks, nreq, last, hcall, vcall, tcall, otasks,
                   uuids, ccalls, hooks, scalls>>

InitContext ==
    /\ ConstructedWith({NoVerifyCall}, Directories)
    /\ webhook_secret = None
    /\ redis_client = FALSE

NextContext ==
    \/ ContextInitialize
    \/ SaveContextCall
    \/ InitializeProjectCall

SpecContext == InitContext /\ [][NextContext]_vars

-----------------------------------------------------------------------------
(* Claims about save_context.                                              *)

\* the sessions list of the history file, empty when there is none to read
HistoryOf(dir) ==
    IF "session_history.json" \in DOMAIN dir
       /\ dir["session_history.json"].kind = "object"
    THEN DictGet(dir["session_history.json"].dict, "sessions", <<>>)
    ELSE <<>>

\* a step that serves a save_context request
SaveStep == nreq' = nreq + 1 /\ tcall'.tool = "save_context"

\* the entry a save_context call writes, read off the call and its time
SavedEntry(call, now) ==
    SessionEntry(call.result.session_id, now, ArgOr(call.args.auto_save, FALSE),
                 call.args.context_data.dict)

\* C21: the session history never holds more than the limit of entries; a
\* successful save_context leaves the old entries followed by its own one
\* entry, cut to the most recent ones up to the limit, and nothing else changes
\* the list, so the history is the most recent successful saves in call order
C21_HistoryIsLastSaves ==
    [][/\ Len(HistoryOf(files')) <= SessionLimit
       /\ (SaveStep /\ tcall'.result.success) =>
            LET all == Append(HistoryOf(files), SavedEntry(tcall', nreq'))
            IN  /\ HistoryOf(files') =
                     SubSeq(all, Len(all) - Len(HistoryOf(files')) + 1, Len(all))
                /\ Len(HistoryOf(files')) = IF Len(all) < SessionLimit THEN Len(all)
                                            ELSE SessionLimit
       /\ ~(SaveStep /\ tcall'.result.success) =>
            HistoryOf(files') = HistoryOf(files)]_vars

\* a save has pushed the oldest entry out of a full history
C21_Witness ==
    /\ tcall.done /\ tcall.tool = "save_context" /\ tcall.result.success
    /\ Len(HistoryOf(files)) = SessionLimit
    /\ nreq > SessionLimit
    /\ HistoryOf(files)[1].timestamp > 1
    /\ HistoryOf(files)[SessionLimit].timestamp = nreq

\* the project state file, or the empty object when there is none
StateOf(dir) ==
    IF "project_state.json" \in DOMAIN dir THEN Some(dir["project_state.json"])
    ELSE None

\* C30: a save_context call that returns success false leaves the project
\* state file and the session history as they were
C30_FailedSaveChangesNothing ==
    [][(SaveStep /\ ~tcall'.result.success) =>
          /\ StateOf(files') = StateOf(files)
          /\ HistoryOf(files') = HistoryOf(files)]_vars

\* what does hold: a failed save leaves the history alone, a successful one
\* writes the state and one entry
C30_FailedSaveKeepsHistory ==
    [][SaveStep =>
          IF tcall'.result.success
          THEN /\ StateOf(files') # None
               /\ Get(StateOf(files')).dict["session_id"] =
                     Some(tcall'.result.session_id)
               /\ Len(HistoryOf(files')) > 0
               /\ HistoryOf(files')[Len(HistoryOf(files'))] = SavedEntry(tcall', nreq')
          ELSE HistoryOf(files') = HistoryOf(files)]_vars

-----------------------------------------------------------------------------
(* _analyze_and_suggest(project_state, task_progress, epic_breakdown, ...)  *)
(* of the context server, on the current task, the completed tasks and the *)
(* tasks of the epic that _suggest_next_action reads from the directory.   *)

MaxEpicTasks == 3

SuggestTaskIds == {"t1", "t2", "t3"}

\* task.get("dependencies", []) of the epic tasks of the model
DependencyLists == {<<>>, <<"t1">>, <<"t1", "t3">>}

EpicTasks == {[id |-> id, dependencies |-> d] : id \in SuggestTaskIds,
                                                 d \in DependencyLists}

EpicLists == UNION {[1..n -> EpicTasks] : n \in 0..MaxEpicTasks}

\* task_progress["completed_tasks"], as the ids of its entries
CompletedLists == {<<>>, <<"t1">>, <<"t2">>, <<"t3", "t1">>, <<"t1", "t2", "t3">>}

\* task_progress.get("current_task", {}).get("status")
CurrentStatuses == {None, Some("in_progress"), Some("completed")}

Elements(q) == {q[k] : k \in 1..Len(q)}

Suggestion(action_type, task_id) == [action_type |-> action_type, task_id |-> task_id]

\* the loop without the test of the dependencies
RECURSIVE NextAvailable_IgnoreDependencies(_, _, _)
NextAvailable_IgnoreDependencies(available_tasks, completed_task_ids, i) ==
    IF i > Len(available_tasks) THEN Suggestion("strategic_planning", None)
    ELSE IF available_tasks[i].id \in Elements(completed_task_ids)
    THEN NextAvailable_IgnoreDependencies(available_tasks, completed_task_ids, i + 1)
    ELSE Suggestion("start_next_task", Some(available_tasks[i].id))

\* the for loop over available_tasks, from position i
RECURSIVE NextAvailable(_, _, _)
NextAvailable(available_tasks, completed_task_ids, i) ==
    IF i > Len(available_tasks) THEN Suggestion("strategic_planning", None)
    ELSE LET task == available_tasks[i]
         IN  IF task.id \in Elements(completed_task_ids)
             THEN NextAvailable(available_tasks, completed_task_ids, i + 1)
             ELSE IF \A k \in 1..Len(task.dependencies) :
                        task.dependencies[k] \in Elements(completed_task_ids)
             THEN Suggestion("start_next_task", Some(task.id))
             ELSE NextAvailable(available_tasks, completed_task_ids, i + 1)

AnalyzeAndSuggest(current_status, completed_task_ids, available_tasks) ==
    IF current_status = Some("in_progress")
    THEN Suggestion("continue_current_task", None)
    ELSE NextAvailable(available_tasks, completed_task_ids, 1)

\* await server._analyze_and_suggest(...)
SuggestCall(current_status, completed, available_tasks) ==
    /\ tcall' = [done |-> TRUE, tool |-> "analyze_and_suggest",
                 args |-> [current_status |-> current_status, completed |-> completed,
                           tasks |-> available_tasks],
                 result |-> AnalyzeAndSuggest(current_status, completed,
                                              available_tasks)]
    /\ UNCHANGED <<webhook_secret, redis_client, webhook_handlers, pr_configs, started,
                   init_error, cache, tasks, nreq, last, hcall, vcall, otasks, uuids,
                   ccalls, files, hooks, scalls>>

NextSuggest ==
    /\ ~tcall.done
    /\ \E current_status \in CurrentStatuses : \E completed \in CompletedLists :
          \E available_tasks \in EpicLists :
             SuggestCall(current_status, completed, available_tasks)

SpecSuggest == InitHandler /\ [][NextSuggest]_vars

-----------------------------------------------------------------------------
(* Claims about the next-action analysis.                                  *)

Suggested == tcall.done /\ tcall.tool = "analyze_and_suggest"

\* the epic task at position i is not completed and all it depends on is
Startable(i) ==
    LET done == Elements(tcall.args.completed)
        task == tcall.args.tasks[i]
    IN  /\ task.id \notin done
        /\ Elements(task.dependencies) \subseteq done

StartablePositions == {i \in 1..Len(tcall.args.tasks) : Startable(i)}

\* C22: an in_progress current task gives continue_current_task; otherwise
\* the first epic task, in list order, that is not completed and has all its
\* dependencies completed is suggested with start_next_task, and
\* strategic_planning is returned exactly when there is no such task
C22_SuggestsFirstStartable ==
    Suggested =>
        LET r == tcall.result
        IN  IF tcall.args.current_status = Some("in_progress")
            THEN r.action_type = "continue_current_task"
            ELSE /\ r.action_type = "strategic_planning" <=> StartablePositions = {}
                 /\ StartablePositions # {} =>
                      /\ r.action_type = "start_next_task"
                      /\ \E i \in StartablePositions :
                            /\ \A j \in StartablePositions : i <= j
                            /\ r.task_id = Some(tcall.args.tasks[i].id)

\* the first task is completed, the second waits for a dependency, and the
\* third is the one suggested
C22_Witness ==
    /\ Suggested
    /\ tcall.args.current_status # Some("in_progress")
    /\ Len(tcall.args.tasks) = 3
    /\ tcall.args.tasks[1].id \in Elements(tcall.args.completed)
    /\ ~Startable(2)
    /\ tcall.args.tasks[2].id \notin Elements(tcall.args.completed)
    /\ Startable(3)
    /\ tcall.result = Suggestion("start_next_task", Some(tcall.args.tasks[3].id))

-----------------------------------------------------------------------------
(* _setup_webhooks(arguments) of the GitHub server, split at its awaits:   *)
(* the project lookup, then the PyGithub calls (get_repo_by_id, get_hooks, *)
(* edit or create_hook, none of them awaited) up to the cache write.       *)

MaxSetupCalls == 2

\* f"{self.studio_api_url.replace('3000', '8002')}/webhooks/github"
WebhookUrl == "studio:8002/webhooks/github"

DefaultHookEvents == <<"push", "pull_request", "issues", "issue_comment">>

SetupArguments ==
    {[events |-> None, active |-> None],
     [events |-> Some(<<"push">>), active |-> Some(FALSE)]}

NewHook(id, events, active) ==
    [id |-> id, url |-> WebhookUrl, events |-> events, active |-> active]

\* the first hook of the listing whose config url is the webhook URL, if any
ExistingWebhook(listed) ==
    LET at == {k \in 1..Len(listed) : listed[k].url = WebhookUrl}
    IN  IF at = {} THEN 0 ELSE CHOOSE k \in at : \A j \in at : k <= j

SetupCallStep(calls) ==
    /\ scalls' = calls
    /\ UNCHANGED <<webhook_secret, redis_client, webhook_handlers, pr_configs, started,
                   init_error, tasks, nreq, last, hcall, vcall, tcall, otasks, uuids,
                   ccalls, files>>

\* _setup_webhooks(arguments) is awaited: it runs up to
\* 'await self._get_project_info(project_id)'
SetupBegin(args) ==
    /\ Len(scalls) < MaxSetupCalls
    /\ SetupCallStep(Append(scalls, [args |-> args, pc |-> "project", listed |-> FALSE,
                                     result |-> [success |-> FALSE, error |-> ""]]))
    /\ UNCHANGED <<hooks, cache>>

\* the project lookup returns or raises; then get_repo_by_id (repo), the
\* listing of the hooks (list_ok) and the edit or create_hook (remote) return
\* or raise, up to 'await self.redis_client.setex(...)' when a client is bound
SetupHooks(i, project, repo, list_ok, remote) ==
    /\ i \in 1..Len(scalls)
    /\ scalls[i].pc = "project"
    /\ cache' = cache
    /\ LET c      == scalls[i]
           events == ArgOr(c.args.events, DefaultHookEvents)
           active == ArgOr(c.args.active, TRUE)
           fail(message) ==
               /\ hooks' = hooks
               /\ SetupCallStep([scalls EXCEPT ![i] =
                       [c EXCEPT !.pc = "done", !.result = Failure(message)]])
           done(action, id, after) ==
               /\ hooks' = after
               /\ SetupCallStep([scalls EXCEPT ![i] =
                       [c EXCEPT !.pc = IF redis_client THEN "cache" ELSE "done",
                                 !.listed = list_ok,
                                 !.result = [success |-> TRUE, action |-> action,
                                             webhook |-> NewHook(id, events, active)]]])
       IN  IF project = "raise" THEN fail("ConnectError")
           ELSE IF project = "none" THEN fail("Project not connected to GitHub")
           ELSE IF repo = "raise" THEN fail("GitHub error: repository")
           ELSE LET existing == IF list_ok THEN ExistingWebhook(hooks) ELSE 0
                IN  IF remote = "raise"
                    THEN fail(IF existing > 0 THEN "GitHub error: edit"
                              ELSE "GitHub error: create_hook")
                    ELSE IF existing > 0
                    THEN done("updated", hooks[existing].id,
                              [hooks EXCEPT ![existing] =
                                  NewHook(hooks[existing].id, events, active)])
                    ELSE done("created", Len(hooks) + 1,
                              Append(hooks, NewHook(Len(hooks) + 1, events, active)))

\* the setex of webhook:config:<project id> completes (ok) or raises
SetupPersist(i, ok) ==
    /\ i \in 1..Len(scalls)
    /\ scalls[i].pc = "cache"
    /\ hooks' = hooks
    /\ LET c == scalls[i]
       IN  IF ok
           THEN /\ cache' = Setex(cache, <<"webhook:config", "p1">>, 86400 * 7,
                                  c.result.webhook)
                /\ SetupCallStep([scalls EXCEPT ![i] = [c EXCEPT !.pc = "done"]])
           ELSE /\ cache' = cache
                /\ SetupCallStep([scalls EXCEPT ![i] =
                        [c EXCEPT !.pc = "done", !.result = Failure("ConnectionError")]])

SetupCall ==
    \/ \E args \in SetupArguments : SetupBegin(args)
    \/ \E i \in 1..MaxSetupCalls : \E project \in {"raise", "none", "r1"} :
          \E repo \in {"ok", "raise"} : \E list_ok \in BOOLEAN :
             \E remote \in {"ok", "raise"} : SetupHooks(i, project, repo, list_ok, remote)
    \/ \E i \in 1..MaxSetupCalls : \E ok \in BOOLEAN : SetupPersist(i, ok)

NextWebhooks == SetupCall

SpecWebhooks == InitHandler /\ [][NextWebhooks]_vars

-----------------------------------------------------------------------------
(* Claims about setup_webhooks.                                            *)

UrlHooks(hs) == {k \in 1..Len(hs) : hs[k].url = WebhookUrl}

\* call i has just run its PyGithub calls to the end
HooksStepDone(i) ==
    /\ i \in 1..Len(scalls)
    /\ scalls[i].pc = "project"
    /\ scalls'[i].pc # "project"
    /\ scalls'[i].result.success

\* C23: the repository never has more than one hook with the server's
\* webhook URL: a call that reaches GitHub when there is none creates it, and
\* one that reaches GitHub when there is one edits it and reports "updated",
\* whether or not the hooks could be listed
C23_OneHookPerUrl ==
    [][/\ Cardinality(UrlHooks(hooks')) <= 1
       /\ \A i \in 1..MaxSetupCalls :
             HooksStepDone(i) =>
                scalls'[i].result.action =
                   IF UrlHooks(hooks) = {} THEN "created" ELSE "updated"]_vars

\* what does hold: a call that could list the hooks never adds a second one
C23_OneHookWhenListed ==
    [][\A i \in 1..MaxSetupCalls :
          (HooksStepDone(i) /\ scalls'[i].listed) =>
             /\ Cardinality(UrlHooks(hooks')) = IF UrlHooks(hooks) = {} THEN 1
                                                ELSE Cardinality(UrlHooks(hooks))
             /\ scalls'[i].result.action =
                   IF UrlHooks(hooks) = {} THEN "created" ELSE "updated"]_vars

-----------------------------------------------------------------------------
(* Claims about the integrity of the orchestrator's task store.            *)

\* a step that serves an orchestrator tool call
OrchStep(tool) == nreq' = nreq + 1 /\ tcall'.tool = tool

\* the call served names a task id that is not a key of the store
NamesUnknownTask ==
    /\ ~IsNone(tcall'.args.task_id)
    /\ Get(tcall'.args.task_id) \notin DOMAIN otasks

\* C24: an assign_task or track_progress call that names a task id absent
\* from the store leaves the store as it was; assign_task answers with
\* success false and "Task not found", track_progress creates no task
C24_UnknownTaskLeavesStore ==
    [][/\ (OrchStep("assign_task") /\ NamesUnknownTask) =>
             /\ otasks' = otasks
             /\ tcall'.result = Failure("Task not found")
       /\ (OrchStep("track_progress") /\ NamesUnknownTask) =>
             /\ otasks' = otasks
             /\ tcall'.result.success]_vars

\* track_progress has named an unknown id with a status update while the
\* store holds tasks
C24_Witness ==
    /\ tcall.done /\ tcall.tool = "track_progress"
    /\ tcall.args.task_id = Some(0)
    /\ tcall.args.status_update = Some("completed")
    /\ DOMAIN otasks # {}
    /\ 0 \notin DOMAIN otasks
    /\ \A id \in DOMAIN otasks : otasks[id].progress_history = <<>>

\* the ids a task depends on, directly or through at most n further tasks
RECURSIVE DependsOn(_, _)
DependsOn(id, n) ==
    LET direct == IF id \in DOMAIN otasks THEN Elements(otasks[id].dependencies)
                  ELSE {}
    IN  IF n = 0 THEN direct
        ELSE direct \cup UNION {DependsOn(d, n - 1) : d \in direct}

DependenciesSound ==
    \A id \in DOMAIN otasks :
        /\ Elements(otasks[id].dependencies) \subseteq DOMAIN otasks
        /\ id \notin DependsOn(id, Cardinality(DOMAIN otasks))

EpicTasksStored ==
    (tcall.done /\ tcall.tool = "breakdown_epic" /\ tcall.result.success) =>
        Elements(tcall.result.epic.tasks) \subseteq DOMAIN otasks

\* C29: every dependency of a stored task is the id of a stored task, no
\* task depends on itself directly or through other tasks, every id of a
\* returned epic's task list is a key of the store, and no call removes a
\* task from the store
C29_DependenciesSound ==
    /\ [](DependenciesSound /\ EpicTasksStored)
    /\ [][DOMAIN otasks \subseteq DOMAIN otasks']_vars

\* two epics are stored, each with a feature task depending on its own
\* design task, and the last call changed a task
C29_Witness ==
    /\ Cardinality({id \in DOMAIN otasks : otasks[id].dependencies # <<>>}) = 2
    /\ tcall.done /\ tcall.tool = "assign_task" /\ tcall.result.success
    /\ tcall.result.task.dependencies # <<>>

-----------------------------------------------------------------------------
(* Claims about the push handler.                                          *)

\* the calls the handler is to make for the commits, in payload order
RECURSIVE DuePushCalls(_)
DuePushCalls(commits) ==
    IF commits = <<>> THEN <<>>
    ELSE (IF ExtractIssueReferences(commits[1]) # <<>>
          THEN <<"_update_referenced_issues">> ELSE <<>>)
         \o (IF HasClosureMarker(commits[1]) THEN <<"_handle_issue_closure">> ELSE <<>>)
         \o DuePushCalls(Tail(commits))

PushCall == hcall.done /\ hcall.payload.kind = "push"

\* C25: on a push the handler returns after making, commit by commit in
\* payload order, one issue update for each commit whose message has a
\* '#<number>' reference and one closure step for each commit whose message
\* has a 'fixes #', 'closes #' or 'resolves #' marker, and nothing else
C25_PushStepsPerCommit ==
    PushCall =>
        /\ hcall.res.raised = "none"
        /\ hcall.res.calls = DuePushCalls(hcall.payload.commits)

\* what does hold: a push none of whose commits has a reference or a marker
\* returns without any call, and any other push raises at the first due step
C25_PushStopsAtFirstDueStep ==
    PushCall =>
        /\ hcall.res.calls = <<>>
        /\ hcall.res.raised =
              IF DuePushCalls(hcall.payload.commits) = <<>> THEN "none"
              ELSE "AttributeError"

-----------------------------------------------------------------------------
(* Claims about the order of the steps of _process_webhook.                *)

\* the moves of one delivery: store, then the handler lookup and call, then
\* the notification; the except clause from the store or from the handler
ProcessMoves ==
    {<<"store", "dispatch">>, <<"dispatch", "notify">>, <<"notify", "done">>,
     <<"store", "error">>, <<"dispatch", "error">>, <<"error", "done">>,
     <<"error", "raised">>}

HandlerEntries(log) == {k \in 1..Len(log) : log[k][1] = "handler"}

ErrorRecords(c) == {e \in c : e.key[1] = "webhook:error"}

-----------------------------------------------------------------------------
(* Claims about what configure_pr_automation stores.                       *)

\* call i has just stored its config
ConfigStored(i) ==
    /\ i \in 1..Len(ccalls)
    /\ ccalls[i].pc = "project"
    /\ ccalls'[i].order > 0

\* call i has just failed before its store
ConfigRefused(i) ==
    /\ i \in 1..Len(ccalls)
    /\ ccalls[i].pc = "project"
    /\ ccalls'[i].pc = "done"
    /\ ~ccalls'[i].result.success

\* C27: the store of a configure_pr_automation call puts under the repository
\* the supplied fields with the default for every omitted one, and
\* close_stale_after_days at its default, whatever was stored before, and
\* leaves the other repositories alone; a call that fails before its store
\* leaves the stored configs unchanged
C27_ReplacesWholeConfig ==
    [][\A i \in 1..MaxConfigCalls :
          /\ ConfigStored(i) =>
                LET repo_id == ccalls'[i].repo_id
                IN  /\ repo_id \in DOMAIN pr_configs'
                    /\ pr_configs'[repo_id] = ConfigOfArguments(ccalls[i].args)
                    /\ pr_configs'[repo_id].close_stale_after_days =
                          DefaultPrConfig.close_stale_after_days
                    /\ ccalls'[i].result.config = pr_configs'[repo_id]
                    /\ \A r \in DOMAIN pr_configs : r # repo_id =>
                          r \in DOMAIN pr_configs' /\ pr_configs'[r] = pr_configs[r]
          /\ ConfigRefused(i) => pr_configs' = pr_configs /\ cache' = cache]_vars

\* a call that omits every field has stored after one that set every field:
\* the repository is back at the defaults; no call is in flight
C27_Witness ==
    /\ Len(ccalls) = 2
    /\ ccalls[1].order = 1 /\ ccalls[2].order = 2
    /\ ccalls[1].pc = "done" /\ ccalls[2].pc = "done"
    /\ ccalls[1].repo_id = ccalls[2].repo_id
    /\ ccalls[1].args.protected_branches = Some(<<"main">>)
    /\ ccalls[1].args.require_reviews = Some(0)
    /\ ccalls[2].args.auto_assign = None /\ ccalls[2].args.protected_branches = None
    /\ pr_configs[ccalls[2].repo_id] = DefaultPrConfig

\* the config persisted in the cache under pr:config:<repo id>, if any
CachedConfigs(repo_id) == {e.value : e \in {x \in cache : x.key = <<"pr:config", repo_id>>}}

\* every configure_pr_automation call made has returned success
AllConfigured ==
    /\ Len(ccalls) > 0
    /\ \A i \in 1..Len(ccalls) : ccalls[i].pc = "done" /\ ccalls[i].result.success

\* C28: once the configure_pr_automation calls have completed, with a cache
\* client bound and every call successful, the in-process config of each
\* repository and the config persisted under pr:config:<repo id> are the same
C28_CacheMatchesConfig ==
    (redis_client /\ AllConfigured) =>
        \A repo_id \in DOMAIN pr_configs : CachedConfigs(repo_id) = {pr_configs[repo_id]}

\* what does hold: the persisted config is the one of some successful call on
\* that repository, and equals the in-process one when only one call was made
C28_CacheHoldsSomeCallsConfig ==
    /\ \A repo_id \in DOMAIN pr_configs : \A c \in CachedConfigs(repo_id) :
          \E i \in 1..Len(ccalls) :
              /\ ccalls[i].repo_id = repo_id
              /\ c = ConfigOfArguments(ccalls[i].args)
    /\ (redis_client /\ AllConfigured /\ Len(ccalls) = 1) =>
          \A repo_id \in DOMAIN pr_configs :
              CachedConfigs(repo_id) = {pr_configs[repo_id]}

=============================================================================
